---------------------------- MODULE Spec2Model ----------------------------
(***************************************************************************)
(* A model of smart-splitter's detection and classification core:          *)
(*   boundary_detection/detector.py   BoundaryDetector                     *)
(*   classification/data_models.py    ClassificationResult                 *)
(*   classification/classifier.py     DocumentClassifier                   *)
(*   classification/feedback.py       FeedbackLearningSystem               *)
(*                                                                         *)
(* Page indices are 0-based as in the source; TLA+ sequences are 1-based,  *)
(* so pages_data[i] of the source is pages_data[i + 1] here.  Scores of    *)
(* the boundary detector are kept in tenths (3.0 is 30).  Confidences of   *)
(* the classifier are exact rationals <<numerator, denominator>>; IEEE     *)
(* rounding of the source's floats is not modelled.  re.search is a        *)
(* library call: a text is represented by the set of patterns that match   *)
(* it, and the pattern BadPattern stands for a malformed expression, on    *)
(* which re.search raises re.error.                                        *)
(***************************************************************************)
EXTENDS Integers, Sequences, FiniteSets, TLC

VARIABLES
    \* ---- BoundaryDetector ----
    detector_config,   \* self.config: BoundaryConfig
    caller,            \* "main": the pipeline of main.py; "api": direct calls
    pages_data,        \* the page list handed to detect_boundaries
    in_boundaries,     \* a boundary list supplied by the caller
    total_pages,       \* the total_pages argument
    detected,          \* what detect_boundaries returned
    validated,         \* what validate_boundaries returned
    sections_arg,      \* the list handed to get_document_sections
    sections,          \* what get_document_sections returned
    ran,               \* the operations that have returned
    \* ---- ClassificationResult ----
    ctor_args,         \* the arguments of a ClassificationResult(...) call
    constructed,       \* its outcome: the object built, or the error raised
    \* ---- DocumentClassifier ----
    classifier_config, \* self.config: ClassificationConfig
    openai_client,     \* whether self.openai_client is set
    feedback_system,   \* whether self.feedback_system is set
    call,              \* the last call on the classifier or the store
    result,            \* what that call returned
    documents,         \* the list handed to classify_batch
    responses,         \* what the external service answers for each of them
    results,           \* what classify_batch returned
    \* ---- FeedbackLearningSystem ----
    stats,             \* self.stats: label -> CorrectionStats
    corrections,       \* self.corrections: the CorrectionEntry log
    feedback_file,     \* the content of feedback.json
    \* ---- the threads calling one FeedbackLearningSystem ----
    threads            \* thread -> where it is in record_* and what it holds

bvars == <<detector_config, caller, pages_data, in_boundaries, total_pages,
           detected, validated, sections_arg, sections, ran>>

rvars == <<ctor_args, constructed>>

cvars == <<classifier_config, openai_client, feedback_system, call, result>>

fvars == <<stats, corrections, feedback_file>>

batchvars == <<documents, responses, results>>

tvars == <<threads>>

vars == <<bvars, rvars, cvars, fvars, batchvars, tvars>>

-----------------------------------------------------------------------------
(* Bounds of the model *)

MaxPages == 3

MaxListLen == 3

\* classification events a store records in one run
MaxClassifications == 6

\* corrections recorded directly on a store, and through a classifier
MaxCorrections == 6

MaxReviewCorrections == 5

\* config.max_input_chars, counted in tokens of the modelled texts
MaxInputChars == 4

\* documents in one classify_batch call
MaxBatch == 3

\* corrections recorded beyond the 1000 a feedback file keeps
MaxOverflow == 3

\* correction entries in a feedback file found at start-up
MaxFileEntries == 2

\* corrections recorded before pattern suggestions are asked for
MaxSuggestCorrections == 5

\* pages of the lists on which the header window of three pages is exceeded
MaxSignalPages == 5

\* record_* calls of each of two threads sharing a store
MaxThreadCalls == 2

\* record_* calls of a process that can crash and restart
MaxCrashCalls == 3

-----------------------------------------------------------------------------
(* Helpers *)

Max(a, b) == IF a >= b THEN a ELSE b

Min(a, b) == IF a <= b THEN a ELSE b

Abs(a) == IF a >= 0 THEN a ELSE -a

RECURSIVE SeqSum(_)
SeqSum(s) == IF s = <<>> THEN 0 ELSE Head(s) + SeqSum(Tail(s))

Range(s) == {s[i] : i \in 1..Len(s)}

\* s[:n] of Python
Prefix(s, n) == SubSeq(s, 1, Min(n, Len(s)))

SeqsUpTo(S, n) == UNION {[1..k -> S] : k \in 0..n}

\* sorted(set(...)): the members of S in increasing order
RECURSIVE SortedSeq(_)
SortedSeq(S) ==
    IF S = {} THEN <<>>
    ELSE LET m == CHOOSE x \in S : \A y \in S : x <= y
         IN  <<m>> \o SortedSeq(S \ {m})

-----------------------------------------------------------------------------
(* BoundaryDetector: configuration and page observations *)

BadPattern == "("

\* an expression whose repetition count the re module refuses with
\* OverflowError ("the repetition number is too large"), which is not a re.error
OversizedRepeat == "a{99999999999999999999}"

\* boundary patterns as PatternManager.get_boundary_patterns supplies them
DefaultBoundaryPatterns ==
    [email |-> <<"FROM", "SUBJECT">>, payment_application |-> <<"PAYAPP">>]

\* the same lists with a malformed expression in front of the email patterns
BrokenBoundaryPatterns ==
    [email |-> <<BadPattern, "FROM", "SUBJECT">>, payment_application |-> <<"PAYAPP">>]

\* the same lists with an expression re refuses with OverflowError
OversizedBoundaryPatterns ==
    [email |-> <<"FROM", "SUBJECT">>, payment_application |-> <<OversizedRepeat, "PAYAPP">>]

\* BoundaryConfig defaults and the scores of the four signals, in tenths
DefaultConfidenceThreshold == 7

LargeFontWeight == 20

HeaderChangeWeight == 15

PatternScore == 30

LayoutScore == 10

DefaultFontSize == 12

HeaderLines == 3

HeaderWindow == 3

\* processing.min_document_length is read from the configuration unchecked
MinDocumentLengths == {0, 1, 2}

ConfidenceThresholds == {DefaultConfidenceThreshold, 15, 35}

BoundaryConfig(patterns, min_len, threshold) ==
    [patterns |-> patterns,
     min_document_length |-> min_len,
     confidence_threshold |-> threshold,
     large_font_weight |-> LargeFontWeight,
     header_change_weight |-> HeaderChangeWeight]

\* A PageData: text (the patterns matching it), has_large_text, first_lines
\* (each line the set of its lower-cased words), layout_info.font_sizes,
\* the y of each layout_info.text_blocks entry, layout_info.page_height.
Page(text, large, lines, fonts, ys, height) ==
    [text |-> text, has_large_text |-> large, first_lines |-> lines,
     font_sizes |-> fonts, block_ys |-> ys, page_height |-> height]

PlainPage == Page({}, FALSE, <<{"report", "page"}>>, <<12>>, <<100>>, 792)

EmailPage == Page({"FROM", "SUBJECT"}, FALSE, <<{"from"}, {"subject"}>>, <<12>>, <<100>>, 792)

TitlePage == Page({}, TRUE, <<{"report", "page"}>>, <<12, 24>>, <<100>>, 792)

ShiftedPage == Page({}, FALSE, <<{"report", "page"}>>, <<12>>, <<400>>, 792)

NewHeaderPage == Page({}, FALSE, <<{"invoice"}, {}, {"total"}, {"report", "page"}>>, <<12>>, <<100>>, 792)

BlankPage == Page({}, FALSE, <<>>, <<>>, <<>>, 0)

PageKinds == {PlainPage, EmailPage, TitlePage, ShiftedPage, NewHeaderPage, BlankPage}

-----------------------------------------------------------------------------
(* BoundaryDetector: the signals *)

\* re.search(pattern, text_upper, re.IGNORECASE | re.MULTILINE); "error" is
\* re.error, "overflow" is OverflowError
ReSearch(pattern, text) ==
    IF pattern = BadPattern THEN "error"
    ELSE IF pattern = OversizedRepeat THEN "overflow"
    ELSE IF pattern \in text THEN "match" ELSE "none"

\* the exception that leaves _check_boundary_patterns, "" when it returns:
\* the loop tries every pattern of every type and catches re.error only
_check_boundary_patterns_raises(cfg, text) ==
    IF \E t \in DOMAIN cfg.patterns :
          \E k \in 1..Len(cfg.patterns[t]) : ReSearch(cfg.patterns[t][k], text) = "overflow"
    THEN "OverflowError" ELSE ""

\* _check_boundary_patterns: 3.0 when any pattern of any type matches
_check_boundary_patterns(cfg, text) ==
    IF \E t \in DOMAIN cfg.patterns :
          \E k \in 1..Len(cfg.patterns[t]) : ReSearch(cfg.patterns[t][k], text) = "match"
    THEN PatternScore ELSE 0

\* abs(curr_avg - prev_avg) / prev_avg > 0.2 on averages sum/len (12 when the
\* list is empty), cross-multiplied
FontChanged(prev_page, curr_page) ==
    LET ps == IF prev_page.font_sizes = <<>> THEN DefaultFontSize ELSE SeqSum(prev_page.font_sizes)
        pn == IF prev_page.font_sizes = <<>> THEN 1 ELSE Len(prev_page.font_sizes)
        cs == IF curr_page.font_sizes = <<>> THEN DefaultFontSize ELSE SeqSum(curr_page.font_sizes)
        cn == IF curr_page.font_sizes = <<>> THEN 1 ELSE Len(curr_page.font_sizes)
    IN  IF ps > 0 THEN 5 * Abs(cs * pn - ps * cn) > ps * cn ELSE FALSE

\* _has_layout_shift: abs(curr_avg_y - prev_avg_y) / page_height > 0.3
_has_layout_shift(prev_page, curr_page) ==
    IF prev_page.block_ys = <<>> \/ curr_page.block_ys = <<>> THEN FALSE
    ELSE LET ps == SeqSum(prev_page.block_ys)
             pn == Len(prev_page.block_ys)
             cs == SeqSum(curr_page.block_ys)
             cn == Len(curr_page.block_ys)
             h  == curr_page.page_height
         IN  IF h > 0 THEN 10 * Abs(cs * pn - ps * cn) > 3 * h * pn * cn ELSE FALSE

_check_layout_changes(prev_page, curr_page) ==
    (IF FontChanged(prev_page, curr_page) THEN LayoutScore ELSE 0)
    + (IF _has_layout_shift(prev_page, curr_page) THEN LayoutScore ELSE 0)

\* set(' '.join(header).lower().split())
HeaderWords(header) == UNION Range(header)

\* _headers_similar: more than 30% of the larger word set is shared
_headers_similar(header1, header2) ==
    IF header1 = <<>> \/ header2 = <<>> THEN FALSE
    ELSE LET words1 == HeaderWords(header1)
             words2 == HeaderWords(header2)
         IN  IF words1 = {} \/ words2 = {} THEN FALSE
             ELSE 10 * Cardinality(words1 \cap words2)
                    > 3 * Max(Cardinality(words1), Cardinality(words2))

\* _check_header_changes comparing with every earlier page
_check_header_changes_all_previous(cfg, pages, page_index) ==
    IF page_index < 2 THEN 0
    ELSE LET current_header == Prefix(pages[page_index + 1].first_lines, HeaderLines)
             similar_headers ==
                 Cardinality({i \in 0..(page_index - 1) :
                     _headers_similar(current_header,
                                      Prefix(pages[i + 1].first_lines, HeaderLines))})
         IN  IF similar_headers = 0 /\ Len(current_header) > 0
             THEN cfg.header_change_weight ELSE 0

\* _check_header_changes at the 0-based page_index
_check_header_changes(cfg, pages, page_index) ==
    IF page_index < 2 THEN 0
    ELSE LET current_header == Prefix(pages[page_index + 1].first_lines, HeaderLines)
             similar_headers ==
                 Cardinality({i \in Max(0, page_index - HeaderWindow)..(page_index - 1) :
                     _headers_similar(current_header,
                                      Prefix(pages[i + 1].first_lines, HeaderLines))})
         IN  IF similar_headers = 0 /\ Len(current_header) > 0
             THEN cfg.header_change_weight ELSE 0

\* the confidence _is_boundary_page accumulates for the 0-based page_index
BoundaryConfidence(cfg, pages, page_index) ==
    _check_boundary_patterns(cfg, pages[page_index + 1].text)
    + (IF page_index > 0
       THEN _check_layout_changes(pages[page_index], pages[page_index + 1]) ELSE 0)
    + (IF pages[page_index + 1].has_large_text THEN cfg.large_font_weight ELSE 0)
    + _check_header_changes(cfg, pages, page_index)

_is_boundary_page(cfg, pages, page_index) ==
    BoundaryConfidence(cfg, pages, page_index) >= cfg.confidence_threshold

-----------------------------------------------------------------------------
(* BoundaryDetector: validate_boundaries, detect_boundaries, get_document_sections *)

\* the loop of validate_boundaries over the sorted candidates
RECURSIVE ValidateLoop(_, _, _, _)
ValidateLoop(cfg, candidates, total, acc) ==
    IF candidates = <<>> THEN acc
    ELSE LET boundary == Head(candidates)
             prev_boundary == acc[Len(acc)]
         IN  IF boundary >= total
             THEN ValidateLoop(cfg, Tail(candidates), total, acc)
             ELSE IF boundary - prev_boundary >= cfg.min_document_length
                  THEN ValidateLoop(cfg, Tail(candidates), total, Append(acc, boundary))
                  ELSE ValidateLoop(cfg, Tail(candidates), total, acc)

\* validate_boundaries measuring each candidate against the candidate before it
RECURSIVE ValidateLoopPrevCandidate(_, _, _, _, _)
ValidateLoopPrevCandidate(cfg, candidates, total, acc, prev) ==
    IF candidates = <<>> THEN acc
    ELSE LET boundary == Head(candidates)
         IN  IF boundary >= total
             THEN ValidateLoopPrevCandidate(cfg, Tail(candidates), total, acc, prev)
             ELSE IF boundary - prev >= cfg.min_document_length
                  THEN ValidateLoopPrevCandidate(cfg, Tail(candidates), total,
                                                 Append(acc, boundary), boundary)
                  ELSE ValidateLoopPrevCandidate(cfg, Tail(candidates), total, acc, boundary)

validate_boundaries_prev_candidate(cfg, boundaries, total) ==
    IF boundaries = <<>> THEN <<0>>
    ELSE ValidateLoopPrevCandidate(cfg, SortedSeq(Range(Tail(boundaries))), total, <<0>>, 0)

validate_boundaries(cfg, boundaries, total) ==
    IF boundaries = <<>> THEN <<0>>
    ELSE ValidateLoop(cfg, SortedSeq(Range(Tail(boundaries))), total, <<0>>)

\* the raw list detect_boundaries collects: 0, then every boundary page
RECURSIVE RawBoundaries(_, _, _)
RawBoundaries(cfg, pages, i) ==
    IF i >= Len(pages) THEN <<>>
    ELSE (IF _is_boundary_page(cfg, pages, i) THEN <<i>> ELSE <<>>)
         \o RawBoundaries(cfg, pages, i + 1)

\* detect_boundaries without its guard for the empty page list
detect_boundaries_no_empty_guard(cfg, pages) ==
    validate_boundaries(cfg, <<0>> \o RawBoundaries(cfg, pages, 1), Len(pages))

\* the exception detect_boundaries raises, "" when it returns: whatever
\* _is_boundary_page raises for a page after the first is wrapped (lines 52-54)
detect_boundaries_raises(cfg, pages) ==
    IF \E i \in 1..(Len(pages) - 1) :
          _check_boundary_patterns_raises(cfg, pages[i + 1].text) # ""
    THEN "PDFProcessingError" ELSE ""

detect_boundaries(cfg, pages) ==
    IF pages = <<>> THEN <<>>
    ELSE validate_boundaries(cfg, <<0>> \o RawBoundaries(cfg, pages, 1), Len(pages))

\* the loop of get_document_sections from the 0-based position i
RECURSIVE SectionsLoop(_, _, _)
SectionsLoop(boundaries, total, i) ==
    IF i >= Len(boundaries) THEN <<>>
    ELSE LET start_page == boundaries[i + 1]
             end_page == IF i + 1 < Len(boundaries) THEN boundaries[i + 2] - 1 ELSE total - 1
         IN  (IF start_page <= end_page THEN << <<start_page, end_page>> >> ELSE <<>>)
             \o SectionsLoop(boundaries, total, i + 1)

\* get_document_sections ending each section on the next boundary itself
RECURSIVE SectionsLoopOffByOne(_, _, _)
SectionsLoopOffByOne(boundaries, total, i) ==
    IF i >= Len(boundaries) THEN <<>>
    ELSE LET start_page == boundaries[i + 1]
             end_page == IF i + 1 < Len(boundaries) THEN boundaries[i + 2] ELSE total - 1
         IN  (IF start_page <= end_page THEN << <<start_page, end_page>> >> ELSE <<>>)
             \o SectionsLoopOffByOne(boundaries, total, i + 1)

get_document_sections_off_by_one(boundaries, total) ==
    IF boundaries = <<>>
    THEN IF total > 0 THEN << <<0, total - 1>> >> ELSE <<>>
    ELSE SectionsLoopOffByOne(boundaries, total, 0)

get_document_sections(boundaries, total) ==
    IF boundaries = <<>>
    THEN IF total > 0 THEN << <<0, total - 1>> >> ELSE <<>>
    ELSE SectionsLoop(boundaries, total, 0)

-----------------------------------------------------------------------------
(* Rationals <<n, d>> with d > 0, in lowest terms *)

RECURSIVE GCD(_, _)
GCD(a, b) == IF b = 0 THEN a ELSE GCD(b, a % b)

Rat(n, d) == LET g == GCD(Abs(n), d) IN <<n \div g, d \div g>>

RatLess(a, b) == a[1] * b[2] < b[1] * a[2]

RatLeq(a, b) == a[1] * b[2] <= b[1] * a[2]

RatMul(a, b) == Rat(a[1] * b[1], a[2] * b[2])

RatAdd(a, b) == Rat(a[1] * b[2] + b[1] * a[2], a[2] * b[2])

RatSub(a, b) == Rat(a[1] * b[2] - b[1] * a[2], a[2] * b[2])

RatMax(a, b) == IF RatLeq(b, a) THEN a ELSE b

RatMin(a, b) == IF RatLeq(a, b) THEN a ELSE b

Zero == Rat(0, 1)

One == Rat(1, 1)

-----------------------------------------------------------------------------
(* classification/data_models.py *)

\* [dt.value for dt in DocumentType]
DocumentType ==
    {"email", "letter", "payment_application", "evidence_of_payment",
     "change_order", "change_order_response", "rfi", "rfi_response",
     "inspection_report", "contract_document", "plans_specifications", "other"}

\* [cm.value for cm in ClassificationMethod]
ClassificationMethod == {"rule_based", "api", "fallback"}

EmptyDict == [k \in {} |-> ""]

\* the fields of a ClassificationResult
ClassificationResult(document_type, confidence, method_used, extracted_info, raw_response) ==
    [document_type |-> document_type, confidence |-> confidence,
     method_used |-> method_used, extracted_info |-> extracted_info,
     raw_response |-> raw_response]

\* no object: the value of a variable that holds no ClassificationResult
NoResult == ClassificationResult("", Zero, "", EmptyDict, "None")

\* __post_init__ accepting any method tag
post_init_any_method(r) ==
    IF ~(RatLeq(Zero, r.confidence) /\ RatLeq(r.confidence, One))
    THEN "ValueError: Confidence must be between 0 and 1"
    ELSE IF r.document_type \notin DocumentType
    THEN "ValueError: Invalid document type"
    ELSE "ok"

\* ClassificationResult.__post_init__: "ok", or the ValueError it raises
__post_init__(r) ==
    IF ~(RatLeq(Zero, r.confidence) /\ RatLeq(r.confidence, One))
    THEN "ValueError: Confidence must be between 0 and 1"
    ELSE IF r.document_type \notin DocumentType
    THEN "ValueError: Invalid document type"
    ELSE IF r.method_used \notin ClassificationMethod
    THEN "ValueError: Invalid classification method"
    ELSE "ok"

\* what ClassificationResult(...) gives its caller
Construct(document_type, confidence, method_used) ==
    LET r == ClassificationResult(document_type, confidence, method_used, EmptyDict, "None")
    IN  [raised |-> __post_init__(r),
         object |-> IF __post_init__(r) = "ok" THEN r ELSE NoResult]

\* classification patterns in dict order: <<label, patterns>>
DefaultRulePatterns ==
    << <<"email", <<"FROM", "TO", "SUBJECT", "SENT">> >>,
       <<"change_order", <<"CHANGE", "MODIFICATION">> >> >>

\* the same after add_rule_pattern("invoice", ...): a label outside DocumentType
CustomRulePatterns ==
    << <<"email", <<"FROM", "TO", "SUBJECT", "SENT">> >>,
       <<"change_order", <<"CHANGE", "MODIFICATION">> >>,
       <<"invoice", <<"INVOICE">> >> >>

\* the same with a malformed expression among the email patterns
BrokenRulePatterns ==
    << <<"email", <<"FROM", BadPattern, "TO", "SUBJECT", "SENT">> >>,
       <<"change_order", <<"CHANGE", "MODIFICATION">> >> >>

\* the same with an expression re refuses with OverflowError
OversizedRulePatterns ==
    << <<"email", <<"FROM", "TO", "SUBJECT", "SENT">> >>,
       <<"change_order", <<"CHANGE", OversizedRepeat, "MODIFICATION">> >> >>

\* ClassificationConfig.confidence_threshold: the default 0.7, and 0.9
DefaultThreshold == Rat(7, 10)

HighThreshold == Rat(9, 10)

ClassificationConfig(threshold, patterns) ==
    [confidence_threshold |-> threshold, rule_patterns |-> patterns,
     max_input_chars |-> MaxInputChars, api_model |-> "gpt-4.1-nano"]

-----------------------------------------------------------------------------
(* classification/feedback.py: FeedbackLearningSystem *)

\* CorrectionStats()
NewStats == [total_classifications |-> 0, total_corrections |-> 0,
             correction_targets |-> EmptyDict]

\* self.stats[label] of the defaultdict: the entry, made on first access
StatsOf(st, label) == IF label \in DOMAIN st THEN st[label] ELSE NewStats

\* d[key] = value on a dict
DictPut(d, key, value) == [k \in DOMAIN d \cup {key} |-> IF k = key THEN value ELSE d[k]]

\* corrections[-1000:]
KeepLast == 1000

LastEntries(log, n) == IF Len(log) <= n THEN log ELSE SubSeq(log, Len(log) - n + 1, Len(log))

\* text_sample[:200]
SampleChars == 200

\* the labels of a dict, one after the other
RECURSIVE KeysOf(_)
KeysOf(d) ==
    IF DOMAIN d = {} THEN <<>>
    ELSE LET k == CHOOSE x \in DOMAIN d : TRUE
         IN  <<k>> \o KeysOf([x \in DOMAIN d \ {k} |-> d[x]])

\* feedback.json: whether it exists and parses as a JSON object, its
\* 'corrections' list, its 'stats' object and the order of the keys of that
\* object.  _save_feedback: the document written to feedback.json
_save_feedback(st, log) ==
    [exists |-> TRUE, valid_json |-> TRUE, corrections |-> LastEntries(log, KeepLast),
     stats |-> st, keys |-> KeysOf(st)]

NoFile == [exists |-> FALSE, valid_json |-> FALSE, corrections |-> <<>>,
           stats |-> EmptyDict, keys |-> <<>>]

\* an entry of the file that CorrectionEntry(**entry_data), or
\* stats_data.get(...), raises on
Malformed == [malformed |-> TRUE]

\* the entries of the list before the first malformed one
RECURSIVE GoodPrefix(_)
GoodPrefix(entries) ==
    IF entries = <<>> \/ Head(entries) = Malformed THEN <<>>
    ELSE <<Head(entries)>> \o GoodPrefix(Tail(entries))

\* the loop of _load_feedback over data['stats'].items() from key i
RECURSIVE LoadStats(_, _, _)
LoadStats(file, i, acc) ==
    IF i > Len(file.keys) \/ file.stats[file.keys[i]] = Malformed THEN acc
    ELSE LoadStats(file, i + 1, DictPut(acc, file.keys[i], file.stats[file.keys[i]]))

\* _load_feedback: self.corrections and self.stats after it; the first
\* exception ends the loading and keeps what was loaded before it
_load_feedback(file) ==
    IF ~file.exists \/ ~file.valid_json
    THEN [corrections |-> <<>>, stats |-> EmptyDict]
    ELSE IF Len(GoodPrefix(file.corrections)) < Len(file.corrections)
    THEN [corrections |-> GoodPrefix(file.corrections), stats |-> EmptyDict]
    ELSE [corrections |-> file.corrections, stats |-> LoadStats(file, 1, EmptyDict)]

\* CorrectionStats.correction_rate
correction_rate(s) ==
    IF s.total_classifications = 0 THEN Zero
    ELSE Rat(s.total_corrections, s.total_classifications)

\* CorrectionStats.accuracy_rate
accuracy_rate(s) == RatSub(One, correction_rate(s))

\* record_classification storing a fresh CorrectionStats with the new count
record_classification_fresh_entry(st, document_type) ==
    DictPut(st, document_type,
            [NewStats EXCEPT !.total_classifications =
                                StatsOf(st, document_type).total_classifications + 1])

\* record_classification: the new self.stats
record_classification(st, document_type) ==
    LET s == StatsOf(st, document_type)
    IN  DictPut(st, document_type,
                [s EXCEPT !.total_classifications = s.total_classifications + 1])

CorrectionEntry(original_type, corrected_type, confidence, text_sample) ==
    [original_type |-> original_type, corrected_type |-> corrected_type,
     confidence |-> confidence, text_sample |-> Prefix(text_sample, SampleChars)]

\* record_correction starting every target count again at 1
record_correction_stats_target_reset(st, original_type, corrected_type) ==
    LET s == StatsOf(st, original_type)
    IN  DictPut(st, original_type,
                [s EXCEPT !.total_corrections = s.total_corrections + 1,
                          !.correction_targets = DictPut(s.correction_targets,
                                                         corrected_type, 1)])

\* record_correction counting the correction for the corrected type
record_correction_stats_on_corrected(st, original_type, corrected_type) ==
    LET s == StatsOf(st, corrected_type)
        n == IF original_type \in DOMAIN s.correction_targets
             THEN s.correction_targets[original_type] ELSE 0
    IN  DictPut(st, corrected_type,
                [s EXCEPT !.total_corrections = s.total_corrections + 1,
                          !.correction_targets = DictPut(s.correction_targets,
                                                         original_type, n + 1)])

\* record_correction: the new self.stats
record_correction_stats(st, original_type, corrected_type) ==
    LET s == StatsOf(st, original_type)
        n == IF corrected_type \in DOMAIN s.correction_targets
             THEN s.correction_targets[corrected_type] ELSE 0
    IN  DictPut(st, original_type,
                [s EXCEPT !.total_corrections = s.total_corrections + 1,
                          !.correction_targets = DictPut(s.correction_targets,
                                                         corrected_type, n + 1)])

MinClassifications == 5

\* get_confidence_adjustment without the floor of 0.5
get_confidence_adjustment_no_floor(st, document_type) ==
    IF document_type \notin DOMAIN st
          \/ st[document_type].total_classifications < MinClassifications
    THEN One
    ELSE RatSub(One, RatMul(correction_rate(st[document_type]), Rat(1, 2)))

\* get_confidence_adjustment counting the distinct correction targets
\* instead of the corrections
get_confidence_adjustment_by_targets(st, document_type) ==
    IF document_type \notin DOMAIN st
          \/ st[document_type].total_classifications < MinClassifications
    THEN One
    ELSE RatMax(Rat(1, 2),
                RatSub(One, RatMul(Rat(Cardinality(DOMAIN st[document_type].correction_targets),
                                       st[document_type].total_classifications),
                                   Rat(1, 2))))

\* get_confidence_adjustment: 1.0 below 5 classifications, else
\* max(0.5, 1.0 - correction_rate * 0.5)
get_confidence_adjustment(st, document_type) ==
    IF document_type \notin DOMAIN st
          \/ st[document_type].total_classifications < MinClassifications
    THEN One
    ELSE RatMax(Rat(1, 2),
                RatSub(One, RatMul(correction_rate(st[document_type]), Rat(1, 2))))

\* get_accuracy_report: an entry for every type with classifications.
\* most_corrected_to holds the targets of the highest count (max returns the
\* first of them in the order of the dictionary, which the store here does
\* not keep) and most_corrected_to_rate the rate of that count; both are
\* empty when the key is absent.
get_accuracy_report(st) ==
    [t \in {u \in DOMAIN st : st[u].total_classifications > 0} |->
        LET targets == st[t].correction_targets
            top == {u \in DOMAIN targets : \A v \in DOMAIN targets : targets[v] <= targets[u]}
        IN  [total_classifications |-> st[t].total_classifications,
             total_corrections |-> st[t].total_corrections,
             accuracy_rate |-> accuracy_rate(st[t]),
             correction_rate |-> correction_rate(st[t]),
             confidence_adjustment |-> get_confidence_adjustment(st, t),
             most_corrected_to |-> top,
             most_corrected_to_rate |->
                 {Rat(targets[u], st[t].total_corrections) : u \in top}]]

-----------------------------------------------------------------------------
(* classification/classifier.py: DocumentClassifier *)

\* A text is a sequence of tokens, one per character: " " is white space,
\* "x" matches nothing, every other token is matched by the pattern of its name.
WhiteSpace == " "

\* not text_sample
IsEmpty(text) == text = <<>>

\* not text_sample or not text_sample.strip()
IsBlank(text) == \A i \in 1..Len(text) : text[i] = WhiteSpace

\* the patterns of a list that re.search finds in the text, in list order
Matches(patterns, text) ==
    SelectSeq(patterns, LAMBDA p : ReSearch(p, Range(text)) = "match")

\* min(0.6 + (len(matches) - 1) * 0.2, 1.0)
BaseConfidence(k) == RatMin(RatAdd(Rat(6, 10), RatMul(Rat(k - 1, 1), Rat(2, 10))), One)

\* the confidence of one label without the adjustment of the feedback store
RuleConfidenceUnadjusted(fb, st, doc_type, matches) ==
    IF matches = <<>> THEN Zero ELSE BaseConfidence(Len(matches))

\* the confidence _classify_by_rules gives one label
RuleConfidence(fb, st, doc_type, matches) ==
    IF matches = <<>> THEN Zero
    ELSE IF fb THEN RatMul(BaseConfidence(Len(matches)), get_confidence_adjustment(st, doc_type))
    ELSE BaseConfidence(Len(matches))

\* the loop of _classify_by_rules over config.rule_patterns from position i
RECURSIVE RulesLoop(_, _, _, _, _, _)
RulesLoop(rule_patterns, fb, st, text, i, best) ==
    IF i > Len(rule_patterns) THEN best
    ELSE LET doc_type == rule_patterns[i][1]
             matches == Matches(rule_patterns[i][2], text)
             confidence == RuleConfidence(fb, st, doc_type, matches)
         IN  RulesLoop(rule_patterns, fb, st, text, i + 1,
                       IF RatLess(best.confidence, confidence)
                       THEN [confidence |-> confidence, type |-> doc_type, match |-> matches]
                       ELSE best)

\* the loop keeping the label found last among equally confident ones
RECURSIVE RulesLoopLastWins(_, _, _, _, _, _)
RulesLoopLastWins(rule_patterns, fb, st, text, i, best) ==
    IF i > Len(rule_patterns) THEN best
    ELSE LET doc_type == rule_patterns[i][1]
             matches == Matches(rule_patterns[i][2], text)
             confidence == RuleConfidence(fb, st, doc_type, matches)
         IN  RulesLoopLastWins(rule_patterns, fb, st, text, i + 1,
                       IF RatLeq(best.confidence, confidence) /\ matches # <<>>
                       THEN [confidence |-> confidence, type |-> doc_type, match |-> matches]
                       ELSE best)

RuleResult(best) ==
    ClassificationResult(best.type, best.confidence, "rule_based",
        IF best.match # <<>>
        THEN [matched_patterns |-> best.match, pattern_count |-> Len(best.match)]
        ELSE EmptyDict,
        "None")

_classify_by_rules_last_wins(cfg, fb, st, text) ==
    RuleResult(RulesLoopLastWins(cfg.rule_patterns, fb, st, text, 1,
                                 [confidence |-> Zero, type |-> "other", match |-> <<>>]))

_classify_by_rules(cfg, fb, st, text) ==
    RuleResult(RulesLoop(cfg.rule_patterns, fb, st, text, 1,
                         [confidence |-> Zero, type |-> "other", match |-> <<>>]))

\* what the external service answers: a label, or "raise" for a call that
\* fails (timeout, transport error, malformed response)
ApiResponses == {"email", " Change_Order\n", "invoice", "raise"}

\* response.choices[0].message.content.strip().lower()
StripLower(content) ==
    CASE content = " Change_Order\n" -> "change_order"
      [] OTHER -> content

ApiConfidence == Rat(8, 10)

InvalidApiConfidence == Rat(2, 10)

\* _classify_by_api giving an unknown label no confidence at all
_classify_by_api_invalid_zero(cfg, content) ==
    LET result_text == StripLower(content)
    IN  IF result_text \in DocumentType
        THEN ClassificationResult(result_text, ApiConfidence, "api",
                                  [api_model |-> cfg.api_model], result_text)
        ELSE ClassificationResult("other", Zero, "api",
                                  [error |-> "Invalid API response", raw_response |-> result_text],
                                  "None")

\* _classify_by_api on an answer that arrived
_classify_by_api(cfg, content) ==
    LET result_text == StripLower(content)
    IN  IF result_text \in DocumentType
        THEN ClassificationResult(result_text, ApiConfidence, "api",
                                  [api_model |-> cfg.api_model], result_text)
        ELSE ClassificationResult("other", InvalidApiConfidence, "api",
                                  [error |-> "Invalid API response", raw_response |-> result_text],
                                  "None")

RuleWeight == Rat(3, 10)

ApiWeight == Rat(7, 10)

LowConfidence == Rat(3, 10)

FallbackConfidence == Rat(1, 10)

EmptyTextResult ==
    ClassificationResult("other", Zero, "fallback", [error |-> "Empty text sample"], "None")

NoPatternResult ==
    ClassificationResult("other", FallbackConfidence, "fallback",
                         [reason |-> "No patterns matched"], "None")

\* the outcome of a call: what it returned, the rule result it computed,
\* whether it invoked the external service, the label it recorded ("" for none)
Outcome(res, rule, api_called, recorded) ==
    [result |-> res, rule_result |-> rule, api_called |-> api_called, recorded |-> recorded]

\* lines 113-124 of classify_document with the rule result kept at 0.3 too
RuleOrFallbackAtLeast(rule, api_called) ==
    IF RatLeq(LowConfidence, rule.confidence)
    THEN Outcome(rule, rule, api_called, "")
    ELSE Outcome(NoPatternResult, rule, api_called, "")

\* lines 113-124 of classify_document: the low-confidence rule result or other
RuleOrFallback(rule, api_called) ==
    IF RatLess(LowConfidence, rule.confidence)
    THEN Outcome(rule, rule, api_called, "")
    ELSE Outcome(NoPatternResult, rule, api_called, "")

\* classify_document preferring the external result on equal confidence
ApiOrRuleOnEqual(cfg, rule, content, text) ==
    LET api_result == _classify_by_api(cfg, content)
        combined_confidence == RatAdd(RatMul(rule.confidence, RuleWeight),
                                      RatMul(api_result.confidence, ApiWeight))
    IN  IF RatLeq(rule.confidence, api_result.confidence)
        THEN Outcome([api_result EXCEPT !.confidence = combined_confidence], rule, TRUE, "")
        ELSE Outcome([rule EXCEPT !.confidence = combined_confidence], rule, TRUE, "")

\* lines 93-108 of classify_document adding the two confidences without weights
ApiOrRuleUnweighted(cfg, rule, content, text) ==
    LET api_result == _classify_by_api(cfg, content)
        combined_confidence == RatAdd(rule.confidence, api_result.confidence)
    IN  IF RatLess(rule.confidence, api_result.confidence)
        THEN Outcome([api_result EXCEPT !.confidence = combined_confidence], rule, TRUE, "")
        ELSE Outcome([rule EXCEPT !.confidence = combined_confidence], rule, TRUE, "")

\* lines 93-108 of classify_document: the external result and the rule result combined
ApiOrRule(cfg, rule, content, text) ==
    LET api_result == _classify_by_api(cfg, content)
        combined_confidence == RatAdd(RatMul(rule.confidence, RuleWeight),
                                      RatMul(api_result.confidence, ApiWeight))
    IN  IF RatLess(rule.confidence, api_result.confidence)
        THEN Outcome([api_result EXCEPT !.confidence = combined_confidence], rule, TRUE, "")
        ELSE Outcome([rule EXCEPT !.confidence = combined_confidence], rule, TRUE, "")

\* lines 86-91 of classify_document, where the feedback store is left untouched
ConfidentRuleNotRecorded(fb, rule) == Outcome(rule, rule, FALSE, "")

\* lines 86-91 of classify_document: the confident rule result, recorded in
\* the feedback store when there is one
ConfidentRule(fb, rule) == Outcome(rule, rule, FALSE, IF fb THEN rule.document_type ELSE "")

\* classify_document giving up on the rule result when the external call fails
classify_document_api_error_fallback(cfg, client, fb, st, text_sample, content) ==
    IF IsBlank(text_sample)
    THEN Outcome(EmptyTextResult, NoResult, FALSE, "")
    ELSE LET text == Prefix(text_sample, cfg.max_input_chars)
             rule == _classify_by_rules(cfg, fb, st, text)
         IN  IF RatLeq(cfg.confidence_threshold, rule.confidence)
             THEN ConfidentRule(fb, rule)
             ELSE IF client
             THEN IF content = "raise"
                  THEN Outcome(NoPatternResult, rule, TRUE, "")
                  ELSE ApiOrRule(cfg, rule, content, text)
             ELSE RuleOrFallback(rule, FALSE)

\* classify_document(text_sample) when the external service would answer content
classify_document(cfg, client, fb, st, text_sample, content) ==
    IF IsBlank(text_sample)
    THEN Outcome(EmptyTextResult, NoResult, FALSE, "")
    ELSE LET text == Prefix(text_sample, cfg.max_input_chars)
             rule == _classify_by_rules(cfg, fb, st, text)
         IN  IF RatLeq(cfg.confidence_threshold, rule.confidence)
             THEN ConfidentRule(fb, rule)
             ELSE IF client
             THEN IF content = "raise"
                  THEN RuleOrFallback(rule, TRUE)
                  ELSE ApiOrRule(cfg, rule, content, text)
             ELSE RuleOrFallback(rule, FALSE)

\* the exception that leaves the pattern loop of _classify_by_rules, "" when
\* there is none: every pattern of every type is tried, re.error is caught
_classify_by_rules_raises(cfg, text) ==
    IF \E i \in 1..Len(cfg.rule_patterns) :
          \E k \in 1..Len(cfg.rule_patterns[i][2]) :
             ReSearch(cfg.rule_patterns[i][2][k], Range(text)) = "overflow"
    THEN "OverflowError" ELSE ""

\* the exception classify_document raises on a text, "" when it returns: one
\* from the pattern loop, or from __post_init__ of the ClassificationResult
\* that _classify_by_rules builds
classify_document_raises(cfg, fb, st, text_sample) ==
    IF IsBlank(text_sample) THEN ""
    ELSE LET text == Prefix(text_sample, cfg.max_input_chars)
         IN  IF _classify_by_rules_raises(cfg, text) # ""
             THEN _classify_by_rules_raises(cfg, text)
             ELSE LET raised == __post_init__(_classify_by_rules(cfg, fb, st, text))
                  IN  IF raised = "ok" THEN "" ELSE raised

\* the result classify_batch puts in the place of a document that failed
BatchErrorResult(e) == ClassificationResult("other", Zero, "fallback", [error |-> e], "None")

\* the loop of classify_batch from document i: the results and the store
RECURSIVE BatchLoop(_, _, _, _, _, _, _, _)
BatchLoop(cfg, client, fb, st, docs, resps, i, acc) ==
    IF i > Len(docs) THEN [results |-> acc, stats |-> st]
    ELSE LET e == classify_document_raises(cfg, fb, st, docs[i])
             o == classify_document(cfg, client, fb, st, docs[i], resps[i])
         IN  IF e # ""
             THEN BatchLoop(cfg, client, fb, st, docs, resps, i + 1,
                            Append(acc, BatchErrorResult(e)))
             ELSE BatchLoop(cfg, client, fb,
                            IF o.recorded # "" THEN record_classification(st, o.recorded) ELSE st,
                            docs, resps, i + 1, Append(acc, o.result))

\* the loop of classify_batch answering a text it has seen before in the
\* batch with the result it gave then
RECURSIVE BatchLoopCached(_, _, _, _, _, _, _, _)
BatchLoopCached(cfg, client, fb, st, docs, resps, i, acc) ==
    IF i > Len(docs) THEN [results |-> acc, stats |-> st]
    ELSE LET e == classify_document_raises(cfg, fb, st, docs[i])
             o == classify_document(cfg, client, fb, st, docs[i], resps[i])
         IN  IF \E j \in 1..(i - 1) : docs[j] = docs[i]
             THEN BatchLoopCached(cfg, client, fb, st, docs, resps, i + 1,
                     Append(acc, acc[CHOOSE j \in 1..(i - 1) : docs[j] = docs[i]]))
             ELSE IF e # ""
             THEN BatchLoopCached(cfg, client, fb, st, docs, resps, i + 1,
                                  Append(acc, BatchErrorResult(e)))
             ELSE BatchLoopCached(cfg, client, fb,
                            IF o.recorded # "" THEN record_classification(st, o.recorded) ELSE st,
                            docs, resps, i + 1, Append(acc, o.result))

classify_batch_cached(cfg, client, fb, st, docs, resps) ==
    BatchLoopCached(cfg, client, fb, st, docs, resps, 1, <<>>)

\* the loop of classify_batch giving up at the first document that fails
RECURSIVE BatchLoopAbort(_, _, _, _, _, _, _, _)
BatchLoopAbort(cfg, client, fb, st, docs, resps, i, acc) ==
    IF i > Len(docs) THEN [results |-> acc, stats |-> st]
    ELSE LET e == classify_document_raises(cfg, fb, st, docs[i])
             o == classify_document(cfg, client, fb, st, docs[i], resps[i])
         IN  IF e # ""
             THEN [results |-> Append(acc, BatchErrorResult(e)), stats |-> st]
             ELSE BatchLoopAbort(cfg, client, fb,
                            IF o.recorded # "" THEN record_classification(st, o.recorded) ELSE st,
                            docs, resps, i + 1, Append(acc, o.result))

classify_batch_abort(cfg, client, fb, st, docs, resps) ==
    BatchLoopAbort(cfg, client, fb, st, docs, resps, 1, <<>>)

\* classify_batch(documents) when the external service would answer resps
classify_batch(cfg, client, fb, st, docs, resps) ==
    BatchLoop(cfg, client, fb, st, docs, resps, 1, <<>>)

-----------------------------------------------------------------------------
(* Idle values: the part of the state a specification does not use *)

NoCall == [op |-> "none", text |-> <<>>, api_response |-> "none",
           api_called |-> FALSE, recorded |-> "", rule_result |-> NoResult]

BoundaryIdle ==
    /\ detector_config = BoundaryConfig(DefaultBoundaryPatterns, 1, DefaultConfidenceThreshold)
    /\ caller = "none"
    /\ pages_data = <<>>
    /\ in_boundaries = <<>>
    /\ total_pages = 0
    /\ detected = <<>>
    /\ validated = <<>>
    /\ sections_arg = <<>>
    /\ sections = <<>>
    /\ ran = {}

ResultIdle ==
    /\ ctor_args = <<"other", Zero, "fallback">>
    /\ constructed = [raised |-> "none", object |-> NoResult]

ClassifierIdle ==
    /\ classifier_config = ClassificationConfig(DefaultThreshold, DefaultRulePatterns)
    /\ openai_client = FALSE
    /\ feedback_system = FALSE
    /\ call = NoCall
    /\ result = NoResult

BatchIdle ==
    /\ documents = <<>>
    /\ responses = <<>>
    /\ results = <<>>

\* no thread is calling the store
ThreadsIdle == threads = <<>>

\* FeedbackLearningSystem.__init__ with no feedback file on disk
FeedbackEmpty ==
    /\ stats = EmptyDict
    /\ corrections = <<>>
    /\ feedback_file = NoFile

-----------------------------------------------------------------------------
(* BoundaryDetector: the state machine *)

PageLists == SeqsUpTo(PageKinds, MaxPages)

BoundaryLists == SeqsUpTo(-1..(MaxPages + 1), MaxListLen)

\* main.py runs detect_boundaries on the extracted pages and segments the
\* result; the api caller hands its own list to validate_boundaries or
\* get_document_sections.
InitBoundary ==
    /\ caller \in {"main", "api"}
    /\ \/ /\ caller = "main"
          /\ detector_config \in
                {BoundaryConfig(p, m, t) :
                    p \in {DefaultBoundaryPatterns, BrokenBoundaryPatterns},
                    m \in MinDocumentLengths, t \in ConfidenceThresholds}
          /\ pages_data \in PageLists
          /\ in_boundaries = <<>>
          /\ total_pages = Len(pages_data)
       \/ /\ caller = "api"
          /\ detector_config \in
                {BoundaryConfig(DefaultBoundaryPatterns, m, DefaultConfidenceThreshold) :
                    m \in MinDocumentLengths}
          /\ pages_data = <<>>
          /\ in_boundaries \in BoundaryLists
          /\ total_pages \in 0..(MaxPages + 1)
    /\ detected = <<>>
    /\ validated = <<>>
    /\ sections_arg = <<>>
    /\ sections = <<>>
    /\ ran = {}
    /\ ResultIdle
    /\ ClassifierIdle
    /\ FeedbackEmpty
    /\ BatchIdle
    /\ ThreadsIdle

DetectBoundaries ==
    /\ caller = "main"
    /\ ran = {}
    /\ detected' = detect_boundaries(detector_config, pages_data)
    /\ ran' = ran \cup {"detect_boundaries"}
    /\ UNCHANGED <<detector_config, caller, pages_data, in_boundaries, total_pages,
                   validated, sections_arg, sections, rvars, cvars, fvars, batchvars, tvars>>

ValidateBoundaries ==
    /\ caller = "api"
    /\ ran = {}
    /\ validated' = validate_boundaries(detector_config, in_boundaries, total_pages)
    /\ ran' = ran \cup {"validate_boundaries"}
    /\ UNCHANGED <<detector_config, caller, pages_data, in_boundaries, total_pages,
                   detected, sections_arg, sections, rvars, cvars, fvars, batchvars, tvars>>

\* get_document_sections on the list the caller holds: the detected list in
\* main.py, the caller's own list or its validated form otherwise
GetDocumentSections ==
    /\ "get_document_sections" \notin ran
    /\ \/ caller = "main" /\ "detect_boundaries" \in ran /\ sections_arg' = detected
       \/ caller = "api" /\ ran = {} /\ sections_arg' = in_boundaries
       \/ caller = "api" /\ "validate_boundaries" \in ran /\ sections_arg' = validated
    /\ sections' = get_document_sections(sections_arg', total_pages)
    /\ ran' = ran \cup {"get_document_sections"}
    /\ UNCHANGED <<detector_config, caller, pages_data, in_boundaries, total_pages,
                   detected, validated, rvars, cvars, fvars, batchvars, tvars>>

NextBoundary == DetectBoundaries \/ ValidateBoundaries \/ GetDocumentSections

SpecBoundary == InitBoundary /\ [][NextBoundary]_vars

-----------------------------------------------------------------------------
(* BoundaryDetector on longer page lists: the state machine *)

HeaderPageKinds == {PlainPage, EmailPage, NewHeaderPage}

\* every page list of up to MaxPages pages, and the lists of more pages that
\* differ in their headers and patterns only
SignalPageLists ==
    PageLists \cup
    UNION {[1..k -> HeaderPageKinds] : k \in (MaxPages + 1)..MaxSignalPages}

InitSignals ==
    /\ caller = "main"
    /\ detector_config \in
          {BoundaryConfig(p, m, t) :
              p \in {DefaultBoundaryPatterns, BrokenBoundaryPatterns},
              m \in {1, 2}, t \in ConfidenceThresholds}
    /\ pages_data \in SignalPageLists
    /\ in_boundaries = <<>>
    /\ total_pages = Len(pages_data)
    /\ detected = <<>>
    /\ validated = <<>>
    /\ sections_arg = <<>>
    /\ sections = <<>>
    /\ ran = {}
    /\ ResultIdle
    /\ ClassifierIdle
    /\ FeedbackEmpty
    /\ BatchIdle
    /\ ThreadsIdle

NextSignals == DetectBoundaries

SpecSignals == InitSignals /\ [][NextSignals]_vars

-----------------------------------------------------------------------------
(* Detector and classifier with malformed patterns: the state machine *)

PatternTexts == {<<"x">>, <<"FROM">>, <<"FROM", "SUBJECT">>, <<"CHANGE">>,
                 <<"CHANGE", "MODIFICATION">>, <<WhiteSpace>>}

\* what a call that raised leaves in the place of its result
Raised(e) == [raised |-> e]

InitPatterns ==
    /\ detector_config \in
          {BoundaryConfig(p, 1, DefaultConfidenceThreshold) :
              p \in {DefaultBoundaryPatterns, BrokenBoundaryPatterns, OversizedBoundaryPatterns}}
    /\ caller = "main"
    /\ pages_data \in PageLists
    /\ in_boundaries = <<>>
    /\ total_pages = Len(pages_data)
    /\ detected = <<>>
    /\ validated = <<>>
    /\ sections_arg = <<>>
    /\ sections = <<>>
    /\ ran = {}
    /\ classifier_config \in
          {ClassificationConfig(DefaultThreshold, p) :
              p \in {DefaultRulePatterns, BrokenRulePatterns, OversizedRulePatterns}}
    /\ openai_client = FALSE
    /\ feedback_system = FALSE
    /\ call = NoCall
    /\ result = NoResult
    /\ ResultIdle
    /\ FeedbackEmpty
    /\ BatchIdle
    /\ ThreadsIdle

\* detect_boundaries(pages_data): the list it returns, or the exception it
\* raises in the place of the operation that returned
DetectWithPatterns ==
    /\ ran = {}
    /\ \/ /\ detect_boundaries_raises(detector_config, pages_data) = ""
          /\ ran' = {"detect_boundaries"}
          /\ detected' = detect_boundaries(detector_config, pages_data)
       \/ /\ detect_boundaries_raises(detector_config, pages_data) # ""
          /\ ran' = {detect_boundaries_raises(detector_config, pages_data)}
          /\ detected' = <<>>
    /\ UNCHANGED <<detector_config, caller, pages_data, in_boundaries, total_pages,
                   validated, sections_arg, sections, rvars, cvars, fvars, batchvars, tvars>>

\* classify_document(text) on a classifier without client and feedback store
ClassifyWithPatterns ==
    /\ call.op = "none"
    /\ \E text \in PatternTexts :
          /\ call' = [NoCall EXCEPT !.op = "classify_document", !.text = text]
          /\ result' = IF classify_document_raises(classifier_config, FALSE, stats, text) # ""
                       THEN Raised(classify_document_raises(classifier_config, FALSE, stats, text))
                       ELSE classify_document(classifier_config, FALSE, FALSE, stats,
                                              text, "none").result
    /\ UNCHANGED <<classifier_config, openai_client, feedback_system,
                   bvars, rvars, fvars, batchvars, tvars>>

NextPatterns == DetectWithPatterns \/ ClassifyWithPatterns

SpecPatterns == InitPatterns /\ [][NextPatterns]_vars

-----------------------------------------------------------------------------
(* ClassificationResult: the state machine *)

ConfidenceInputs == {Rat(-1, 10), Zero, Rat(1, 2), One, Rat(3, 2)}

InitResult ==
    /\ ctor_args \in (DocumentType \cup {"invalid_type"}) \X ConfidenceInputs
                        \X (ClassificationMethod \cup {"invalid_method"})
    /\ constructed = [raised |-> "none", object |-> NoResult]
    /\ BoundaryIdle
    /\ ClassifierIdle
    /\ FeedbackEmpty
    /\ BatchIdle
    /\ ThreadsIdle

ConstructResult ==
    /\ constructed.raised = "none"
    /\ constructed' = Construct(ctor_args[1], ctor_args[2], ctor_args[3])
    /\ UNCHANGED <<ctor_args, bvars, cvars, fvars, batchvars, tvars>>

NextResult == ConstructResult

SpecResult == InitResult /\ [][NextResult]_vars

-----------------------------------------------------------------------------
(* FeedbackLearningSystem.suggest_pattern_improvements *)

\* the default of min_corrections
MinCorrectionsDefault == 5

\* word_counts.most_common(20)
MostCommonLimit == 20

\* len(word) > 3
MinWordLength == 3

\* sample.upper(), token by token
Upper(token) == IF token = "x" THEN "X" ELSE token

\* len(word): a token that is not white space stands for one word
WordLength(word) ==
    CASE word = "URGENT" -> 6
      [] word = "INVOICE" -> 7
      [] word = "SUBJECT" -> 7
      [] word = "FROM" -> 4
      [] OTHER -> 1

\* re.findall(r'\b\w+\b', sample.upper()) on a sample whose words are
\* separated by white space
Words(sample) ==
    LET words == SelectSeq(sample, LAMBDA token : token # WhiteSpace)
    IN  [i \in 1..Len(words) |-> Upper(words[i])]

\* all_words after the loop over the samples
RECURSIVE AllWords(_)
AllWords(text_samples) ==
    IF text_samples = <<>> THEN <<>>
    ELSE Words(Head(text_samples)) \o AllWords(Tail(text_samples))

\* Counter(all_words)[word]
WordCount(all_words, word) == Len(SelectSeq(all_words, LAMBDA w : w = word))

\* the keys of Counter(all_words), in the order of their first occurrence
RECURSIVE FirstSeen(_)
FirstSeen(all_words) ==
    IF all_words = <<>> THEN <<>>
    ELSE <<Head(all_words)>> \o
         FirstSeen(SelectSeq(Tail(all_words), LAMBDA w : w # Head(all_words)))

\* the keys sorted by decreasing count, equal counts in order of first occurrence
RECURSIVE ByCount(_, _)
ByCount(keys, all_words) ==
    IF keys = <<>> THEN <<>>
    ELSE LET top == CHOOSE i \in 1..Len(keys) :
                        /\ \A j \in 1..Len(keys) :
                              WordCount(all_words, keys[j]) <= WordCount(all_words, keys[i])
                        /\ \A j \in 1..(i - 1) :
                              WordCount(all_words, keys[j]) < WordCount(all_words, keys[i])
         IN  <<keys[top]>> \o
             ByCount(SelectSeq(keys, LAMBDA w : w # keys[top]), all_words)

\* word_counts.most_common(n), words only
most_common(all_words, n) == Prefix(ByCount(FirstSeen(all_words), all_words), n)

\* _find_common_patterns(text_samples): count >= total_samples * 0.5 and
\* len(word) > 3, where count is the number of occurrences in all samples
_find_common_patterns(text_samples) ==
    SelectSeq(most_common(AllWords(text_samples), MostCommonLimit),
              LAMBDA word : /\ 2 * WordCount(AllWords(text_samples), word) >= Len(text_samples)
                            /\ WordLength(word) > MinWordLength)

\* the keys of correction_groups
GroupKeys(log) == {<<log[i].original_type, log[i].corrected_type>> : i \in 1..Len(log)}

\* correction_groups[key]
GroupSamples(log, key) ==
    LET group == SelectSeq(log, LAMBDA c : <<c.original_type, c.corrected_type>> = key)
    IN  [i \in 1..Len(group) |-> group[i].text_sample]

\* suggest_pattern_improvements(min_corrections): the exception it raises and
\* the dict it returns.  re is imported inside _find_common_patterns only, so
\* re.escape(word) raises for the first common word of the first group that
\* has one
suggest_pattern_improvements(log, min_corrections) ==
    IF \E key \in GroupKeys(log) :
           /\ Len(GroupSamples(log, key)) >= min_corrections
           /\ _find_common_patterns(GroupSamples(log, key)) # <<>>
    THEN [raised |-> "NameError: name 're' is not defined", suggestions |-> EmptyDict]
    ELSE [raised |-> "None", suggestions |-> EmptyDict]

-----------------------------------------------------------------------------
(* FeedbackLearningSystem: the state machine *)

FeedbackLabels == {"email", "change_order"}

CorrectionPairs == {<<"email", "change_order">>, <<"email", "other">>,
                    <<"change_order", "email">>}

\* the corrections a reviewer makes through the classifier
ReviewPairs == {<<"email", "change_order">>}

ReviewConfidence == Rat(8, 10)

ReviewSample == <<"FROM", "x">>

RECURSIVE SumOver(_, _)
SumOver(f, S) ==
    IF S = {} THEN 0
    ELSE LET x == CHOOSE y \in S : TRUE IN f[x] + SumOver(f, S \ {x})

TotalClassifications(st) ==
    SumOver([l \in DOMAIN st |-> st[l].total_classifications], DOMAIN st)

InitFeedback ==
    /\ FeedbackEmpty
    /\ BatchIdle
    /\ ThreadsIdle
    /\ BoundaryIdle
    /\ ResultIdle
    /\ ClassifierIdle

\* the text a reviewer hands in with each correction; the longest is one
\* token longer than the sample the store keeps
LongSample == [i \in 1..(SampleChars + 1) |-> IF i > SampleChars THEN "URGENT" ELSE "x"]

SampleOf(pair) ==
    CASE pair = <<"email", "change_order">> -> <<"URGENT", "FROM", "x">>
      [] pair = <<"change_order", "email">> -> LongSample
      [] OTHER -> <<"x">>

\* FeedbackLearningSystem.record_classification(document_type)
RecordClassification ==
    /\ TotalClassifications(stats) < MaxClassifications
    /\ \E document_type \in FeedbackLabels :
          /\ stats' = record_classification(stats, document_type)
          /\ call' = [NoCall EXCEPT !.op = "record_classification", !.recorded = document_type]
    /\ feedback_file' = _save_feedback(stats', corrections)
    /\ result' = NoResult
    /\ UNCHANGED <<corrections, classifier_config, openai_client, feedback_system,
                   bvars, rvars, batchvars, tvars>>

\* record_correction(pair[1], pair[2], confidence, text_sample) on the store
RecordCorrectionCall(pair, confidence, text_sample) ==
    /\ corrections' = Append(corrections,
                             CorrectionEntry(pair[1], pair[2], confidence, text_sample))
    /\ stats' = record_correction_stats(stats, pair[1], pair[2])
    /\ call' = [NoCall EXCEPT !.op = "record_correction", !.recorded = pair[1],
                              !.text = text_sample]
    /\ feedback_file' = _save_feedback(stats', corrections')
    /\ result' = NoResult
    /\ UNCHANGED <<classifier_config, openai_client, feedback_system, bvars, rvars, batchvars, tvars>>

\* FeedbackLearningSystem.record_correction(original, corrected, confidence, text)
RecordCorrection ==
    /\ Len(corrections) < MaxCorrections
    /\ \E pair \in CorrectionPairs : RecordCorrectionCall(pair, ReviewConfidence, SampleOf(pair))

NextFeedback == RecordClassification \/ RecordCorrection

SpecFeedback == InitFeedback /\ [][NextFeedback]_vars

-----------------------------------------------------------------------------
(* FeedbackLearningSystem asked for pattern suggestions: the state machine *)

SuggestPairs == {<<"email", "change_order">>, <<"email", "other">>}

\* the samples of the corrections: one with a long word, one with a word
\* twice, one with no long word
SuggestSamples == {<<"URGENT", " ", "x">>, <<"FROM", " ", "FROM">>, <<"x">>}

\* the values of min_corrections the callers pass
MinCorrectionsInputs == {2, MinCorrectionsDefault}

InitSuggest ==
    /\ FeedbackEmpty
    /\ BatchIdle
    /\ ThreadsIdle
    /\ BoundaryIdle
    /\ ResultIdle
    /\ ClassifierIdle

\* record_correction(original, corrected, confidence, text) with one of the samples
RecordCorrectionSample ==
    /\ Len(corrections) < MaxSuggestCorrections
    /\ \E pair \in SuggestPairs, text_sample \in SuggestSamples :
          RecordCorrectionCall(pair, ReviewConfidence, text_sample)

\* FeedbackLearningSystem.suggest_pattern_improvements(min_corrections)
SuggestPatternImprovements ==
    /\ \E min_corrections \in MinCorrectionsInputs :
          \E outcome \in {suggest_pattern_improvements(corrections, min_corrections)} :
             result' = [min_corrections |-> min_corrections, raised |-> outcome.raised,
                        suggestions |-> outcome.suggestions]
    /\ call' = [NoCall EXCEPT !.op = "suggest_pattern_improvements"]
    /\ UNCHANGED <<stats, corrections, feedback_file, classifier_config, openai_client,
                   feedback_system, bvars, rvars, batchvars, tvars>>

NextSuggest == RecordCorrectionSample \/ SuggestPatternImprovements

SpecSuggest == InitSuggest /\ [][NextSuggest]_vars

-----------------------------------------------------------------------------
(* FeedbackLearningSystem with a long correction log: the state machine *)

\* the log and the statistics a store loads from a feedback file that
\* earlier runs filled up to one entry below the 1000 it keeps
LoadedLog == [i \in 1..(KeepLast - 1) |-> CorrectionEntry("email", "other", ReviewConfidence, <<"x">>)]

LoadedStats ==
    [email |-> [total_classifications |-> 0, total_corrections |-> KeepLast - 1,
                correction_targets |-> [other |-> KeepLast - 1]]]

InitRetention ==
    /\ stats = LoadedStats
    /\ corrections = LoadedLog
    /\ feedback_file = _save_feedback(LoadedStats, LoadedLog)
    /\ ClassifierIdle
    /\ BatchIdle
    /\ ThreadsIdle
    /\ BoundaryIdle
    /\ ResultIdle

\* FeedbackLearningSystem.record_correction on the long log
RecordCorrectionLongLog ==
    /\ Len(corrections) < KeepLast + MaxOverflow
    /\ \E pair \in CorrectionPairs : RecordCorrectionCall(pair, ReviewConfidence, SampleOf(pair))

NextRetention == RecordCorrectionLongLog

SpecRetention == InitRetention /\ [][NextRetention]_vars

-----------------------------------------------------------------------------
(* FeedbackLearningSystem.__init__ on the file it finds: the state machine *)

FileEntry == CorrectionEntry("email", "change_order", ReviewConfidence, ReviewSample)

FileStats == [total_classifications |-> 5, total_corrections |-> 1,
              correction_targets |-> [change_order |-> 1]]

\* a file that is not JSON, or whose top level is not an object
InvalidJsonFile == [exists |-> TRUE, valid_json |-> FALSE, corrections |-> <<>>,
                    stats |-> EmptyDict, keys |-> <<>>]

\* the key orders of the 'stats' object of a file
FileKeys == {<<>>, <<"email">>, <<"change_order">>, <<"email", "change_order">>,
             <<"change_order", "email">>}

\* the files a store can find: none, an unreadable one, and JSON objects
\* whose entries are well-formed or not
FoundFiles ==
    {NoFile, InvalidJsonFile} \cup
    UNION {{[exists |-> TRUE, valid_json |-> TRUE, corrections |-> log, stats |-> st,
             keys |-> keys] :
                log \in SeqsUpTo({FileEntry, Malformed}, MaxFileEntries),
                st \in [Range(keys) -> {FileStats, Malformed}]} :
           keys \in FileKeys}

\* lines 65-68 of __init__: the fields before _load_feedback runs
InitLoad ==
    /\ feedback_file \in FoundFiles
    /\ stats = EmptyDict
    /\ corrections = <<>>
    /\ ClassifierIdle
    /\ BatchIdle
    /\ ThreadsIdle
    /\ BoundaryIdle
    /\ ResultIdle

\* FeedbackLearningSystem.__init__: _load_feedback on the file found
LoadFeedback ==
    /\ call.op = "none"
    /\ corrections' = _load_feedback(feedback_file).corrections
    /\ stats' = _load_feedback(feedback_file).stats
    /\ call' = [NoCall EXCEPT !.op = "__init__"]
    /\ UNCHANGED <<feedback_file, result, classifier_config, openai_client, feedback_system,
                   bvars, rvars, batchvars, tvars>>

NextLoad == LoadFeedback

SpecLoad == InitLoad /\ [][NextLoad]_vars

-----------------------------------------------------------------------------
(* record_classification and record_correction step by step *)

\* a defaultdict that replaced the entry at every access
TouchStatsFresh(st, label) == DictPut(st, label, NewStats)

\* self.stats[label] on the defaultdict: a missing entry is created
TouchStats(st, label) == IF label \in DOMAIN st THEN st ELSE DictPut(st, label, NewStats)

\* the store after total_classifications of the label is assigned n
StoreClassifications(st, label, n) ==
    [st EXCEPT ![label] = [@ EXCEPT !.total_classifications = n]]

\* the store after total_corrections of the original label is assigned n and
\* the count of the corrected target is raised (lines 152-155)
StoreCorrections(st, original, corrected, n) ==
    [st EXCEPT ![original] =
        [@ EXCEPT !.total_corrections = n,
                  !.correction_targets =
                      DictPut(@, corrected, IF corrected \in DOMAIN @ THEN @[corrected] + 1 ELSE 1)]]

\* the file between open(self.feedback_file, 'w') and the end of json.dump:
\* truncated, not a JSON document
TruncatedFile == InvalidJsonFile

ThreadLabel == "email"

ThreadPair == <<"email", "change_order">>

\* a thread outside the store: at is its position, read the count it loaded
\* for +=, data the document it built for the file; classified and corrected
\* count the calls that returned, overlapped tells whether one of its calls
\* ran while another thread was inside a call
IdleThread(limit) ==
    [at |-> "idle", op |-> "none", read |-> 0, data |-> NoFile,
     classified |-> 0, corrected |-> 0, overlapped |-> FALSE, limit |-> limit]

Outside(t) == threads[t].at \in {"idle", "restarted"}

MayCall(t) ==
    /\ Outside(t)
    /\ threads[t].classified + threads[t].corrected < threads[t].limit

\* the threads when t enters a call with the count n loaded
Entered(t, op, n) ==
    [u \in DOMAIN threads |->
        IF u = t
        THEN [threads[u] EXCEPT !.at = "increment", !.op = op, !.read = n,
                                !.overlapped = @ \/ \E v \in DOMAIN threads \ {t} : ~Outside(v)]
        ELSE IF ~Outside(u) THEN [threads[u] EXCEPT !.overlapped = TRUE]
        ELSE threads[u]]

\* record_classification, line 126: the left side of += is loaded
CallRecordClassification(t) ==
    /\ MayCall(t)
    /\ stats' = TouchStats(stats, ThreadLabel)
    /\ threads' = Entered(t, "record_classification", stats'[ThreadLabel].total_classifications)
    /\ UNCHANGED <<corrections, feedback_file, bvars, rvars, cvars, batchvars>>

\* record_correction, lines 141-152: the entry is appended and the left side
\* of total_corrections += 1 is loaded
CallRecordCorrection(t) ==
    /\ MayCall(t)
    /\ corrections' = Append(corrections,
                             CorrectionEntry(ThreadPair[1], ThreadPair[2],
                                             ReviewConfidence, ReviewSample))
    /\ stats' = TouchStats(stats, ThreadPair[1])
    /\ threads' = Entered(t, "record_correction", stats'[ThreadPair[1]].total_corrections)
    /\ UNCHANGED <<feedback_file, bvars, rvars, cvars, batchvars>>

\* the right side of += is stored
StoreIncrement(t) ==
    /\ threads[t].at = "increment"
    /\ stats' = IF threads[t].op = "record_classification"
                THEN StoreClassifications(stats, ThreadLabel, threads[t].read + 1)
                ELSE StoreCorrections(stats, ThreadPair[1], ThreadPair[2], threads[t].read + 1)
    /\ threads' = [threads EXCEPT ![t].at = "save"]
    /\ UNCHANGED <<corrections, feedback_file, bvars, rvars, cvars, batchvars>>

\* _save_feedback, lines 99-110: data is built from the store
BuildData(t) ==
    /\ threads[t].at = "save"
    /\ threads' = [threads EXCEPT ![t].at = "open",
                                  ![t].data = _save_feedback(stats, corrections)]
    /\ UNCHANGED <<fvars, bvars, rvars, cvars, batchvars>>

\* _save_feedback, line 112: open(self.feedback_file, 'w') truncates the file
OpenFile(t) ==
    /\ threads[t].at = "open"
    /\ feedback_file' = TruncatedFile
    /\ threads' = [threads EXCEPT ![t].at = "dump"]
    /\ UNCHANGED <<stats, corrections, bvars, rvars, cvars, batchvars>>

\* _save_feedback, line 113: json.dump completes, the file is closed and the
\* call returns
DumpData(t) ==
    /\ threads[t].at = "dump"
    /\ feedback_file' = threads[t].data
    /\ threads' = [threads EXCEPT
                      ![t] = [@ EXCEPT !.at = "idle", !.op = "none", !.read = 0, !.data = NoFile,
                                       !.classified = @ + (IF threads[t].op = "record_classification"
                                                           THEN 1 ELSE 0),
                                       !.corrected = @ + (IF threads[t].op = "record_correction"
                                                          THEN 1 ELSE 0)]]
    /\ UNCHANGED <<stats, corrections, bvars, rvars, cvars, batchvars>>

\* the process dies while a thread is inside a call, and the next process
\* constructs its FeedbackLearningSystem on the file left behind
CrashAndRestart ==
    /\ \E t \in DOMAIN threads : ~Outside(t)
    /\ stats' = _load_feedback(feedback_file).stats
    /\ corrections' = _load_feedback(feedback_file).corrections
    /\ threads' = [t \in DOMAIN threads |->
                      [threads[t] EXCEPT !.at = "restarted", !.op = "none", !.read = 0,
                                         !.data = NoFile]]
    /\ UNCHANGED <<feedback_file, bvars, rvars, cvars, batchvars>>

RecordStep(t) ==
    \/ CallRecordClassification(t)
    \/ CallRecordCorrection(t)
    \/ StoreIncrement(t)
    \/ BuildData(t)
    \/ OpenFile(t)
    \/ DumpData(t)

InitStore ==
    /\ FeedbackEmpty
    /\ BatchIdle
    /\ BoundaryIdle
    /\ ResultIdle
    /\ ClassifierIdle

-----------------------------------------------------------------------------
(* One process that can crash during a call: the state machine *)

InitCrash ==
    /\ InitStore
    /\ threads = [t \in {"main"} |-> IdleThread(MaxCrashCalls)]

NextCrash == (\E t \in DOMAIN threads : RecordStep(t)) \/ CrashAndRestart

SpecCrash == InitCrash /\ [][NextCrash]_vars

-----------------------------------------------------------------------------
(* Two threads sharing one store without a lock: the state machine *)

InitThreads ==
    /\ InitStore
    /\ threads = [t \in {"t1", "t2"} |-> IdleThread(MaxThreadCalls)]

NextThreads == \E t \in DOMAIN threads : RecordStep(t)

SpecThreads == InitThreads /\ [][NextThreads]_vars

-----------------------------------------------------------------------------
(* DocumentClassifier: the state machine *)

Texts ==
    { <<>>,
      <<WhiteSpace, WhiteSpace>>,
      <<"x">>,
      <<"FROM">>,
      <<"FROM", "SUBJECT">>,
      <<"FROM", "TO", "SUBJECT">>,
      <<"FROM", "TO", "SUBJECT", "SENT">>,
      <<"CHANGE">>,
      <<"CHANGE", "FROM">>,
      <<"CHANGE", "MODIFICATION", "FROM">>,
      <<"FROM", "x", "x", "x", "x", "x", "SUBJECT">> }

Init ==
    /\ classifier_config \in
          {ClassificationConfig(t, p) : t \in {DefaultThreshold, HighThreshold},
                                        p \in {DefaultRulePatterns, BrokenRulePatterns}}
    /\ openai_client \in BOOLEAN
    /\ feedback_system \in BOOLEAN
    /\ call = NoCall
    /\ result = NoResult
    /\ FeedbackEmpty
    /\ BatchIdle
    /\ ThreadsIdle
    /\ BoundaryIdle
    /\ ResultIdle

\* DocumentClassifier.classify_document(text_sample)
ClassifyDocument ==
    \E text_sample \in Texts, content \in ApiResponses :
        \E o \in {classify_document(classifier_config, openai_client, feedback_system,
                                   stats, text_sample, content)} :
            \* the service's answer matters only to a call that asks for it
            /\ o.api_called \/ content = "raise"
            /\ o.recorded # "" => TotalClassifications(stats) < MaxClassifications
            /\ call' = [op |-> "classify_document", text |-> text_sample,
                        api_response |-> IF o.api_called THEN content ELSE "none",
                        api_called |-> o.api_called, recorded |-> o.recorded,
                        rule_result |-> o.rule_result]
            /\ result' = o.result
            /\ stats' = IF o.recorded # "" THEN record_classification(stats, o.recorded)
                        ELSE stats
            /\ feedback_file' = IF o.recorded # "" THEN _save_feedback(stats', corrections)
                                ELSE feedback_file
            /\ UNCHANGED <<corrections, classifier_config, openai_client, feedback_system,
                           bvars, rvars, batchvars, tvars>>

\* DocumentClassifier.record_correction(original, corrected, confidence, text)
ClassifierRecordCorrection ==
    /\ Len(corrections) < MaxReviewCorrections
    /\ \E pair \in ReviewPairs :
          /\ call' = [NoCall EXCEPT !.op = "record_correction", !.recorded = pair[1]]
          /\ IF feedback_system
             THEN /\ corrections' = Append(corrections,
                         CorrectionEntry(pair[1], pair[2], ReviewConfidence, ReviewSample))
                  /\ stats' = record_correction_stats(stats, pair[1], pair[2])
                  /\ feedback_file' = _save_feedback(stats', corrections')
             ELSE UNCHANGED fvars
    /\ result' = NoResult
    /\ UNCHANGED <<classifier_config, openai_client, feedback_system, bvars, rvars, batchvars, tvars>>

Next == ClassifyDocument \/ ClassifierRecordCorrection

Spec == Init /\ [][Next]_vars

-----------------------------------------------------------------------------
(* DocumentClassifier.classify_batch: the state machine *)

BatchTexts ==
    { <<WhiteSpace, WhiteSpace>>,
      <<"x">>,
      <<"FROM", "SUBJECT">>,
      <<"INVOICE">> }

BatchResponses == {"email", "raise"}

\* a store loaded from the feedback file of earlier runs: four emails
\* classified, two of them corrected
EarlierStats ==
    [email |-> [total_classifications |-> 4, total_corrections |-> 2,
                correction_targets |-> [change_order |-> 2]]]

EarlierCorrections ==
    [i \in 1..2 |-> CorrectionEntry("email", "change_order", ReviewConfidence, ReviewSample)]

FeedbackEarlier ==
    /\ stats = EarlierStats
    /\ corrections = EarlierCorrections
    /\ feedback_file = _save_feedback(EarlierStats, EarlierCorrections)

InitBatch ==
    /\ classifier_config \in
          {ClassificationConfig(DefaultThreshold, p) :
              p \in {DefaultRulePatterns, CustomRulePatterns}}
    /\ openai_client \in BOOLEAN
    /\ feedback_system \in BOOLEAN
    /\ call = NoCall
    /\ result = NoResult
    /\ FeedbackEmpty \/ FeedbackEarlier
    /\ BatchIdle
    /\ ThreadsIdle
    /\ BoundaryIdle
    /\ ResultIdle

\* DocumentClassifier.classify_batch(documents)
ClassifyBatch ==
    /\ call.op = "none"
    /\ \E docs \in SeqsUpTo(BatchTexts, MaxBatch) :
          \E resps \in [1..Len(docs) -> IF openai_client THEN BatchResponses ELSE {"none"}] :
              \E o \in {classify_batch(classifier_config, openai_client, feedback_system,
                                       stats, docs, resps)} :
                  /\ documents' = docs
                  /\ responses' = resps
                  /\ results' = o.results
                  /\ stats' = o.stats
                  /\ feedback_file' = IF o.stats # stats
                                      THEN _save_feedback(o.stats, corrections)
                                      ELSE feedback_file
                  /\ call' = [NoCall EXCEPT !.op = "classify_batch"]
    /\ UNCHANGED <<result, corrections, classifier_config, openai_client,
                   feedback_system, bvars, rvars, tvars>>

NextBatch == ClassifyBatch

SpecBatch == InitBatch /\ [][NextBatch]_vars

-----------------------------------------------------------------------------
(* DocumentClassifier: single calls or one batch *)

InitReturns == Init \/ InitBatch

\* a session of classify_document and record_correction calls, or one
\* classify_batch call on the classifier as constructed
NextReturns ==
    \/ BatchIdle /\ ClassifyDocument
    \/ BatchIdle /\ ClassifierRecordCorrection
    \/ ClassifyBatch

SpecReturns == InitReturns /\ [][NextReturns]_vars

-----------------------------------------------------------------------------
(* Claims about the BoundaryDetector, checked under SpecBoundary *)

StrictlyIncreasing(s) == \A i \in 1..(Len(s) - 1) : s[i] < s[i + 1]

\* a boundary list b_0 < b_1 < ... < b_k with b_0 = 0 and every member < total
WellFormedBoundaries(b, total) ==
    /\ b # <<>>
    /\ b[1] = 0
    /\ StrictlyIncreasing(b)
    /\ \A i \in 1..Len(b) : b[i] < total

\* C1: detect_boundaries returns the empty list for an empty page list, and
\* for every non-empty page list, whatever the pages, the threshold and
\* min_document_length are, the returned list contains index 0.
C1_ZeroIsBoundary ==
    "detect_boundaries" \in ran =>
        /\ pages_data = <<>> => detected = <<>>
        /\ pages_data # <<>> => 0 \in Range(detected)

\* detect_boundaries has returned several boundaries for a page list
C1_Witness ==
    /\ "detect_boundaries" \in ran
    /\ Len(pages_data) >= 2
    /\ Len(detected) >= 2

\* C2: for total_pages >= 1 and a boundary list 0 = b_0 < ... < b_k with all
\* members < total_pages, get_document_sections returns exactly
\* (b_i, b_{i+1} - 1) for i < k followed by (b_k, total_pages - 1): the
\* sections are contiguous, do not overlap and cover [0, total_pages - 1];
\* every list detect_boundaries returns for a non-empty page list is such a
\* list; the empty boundary list yields the single section (0, total_pages - 1).
C2_SectionsPartition ==
    /\ ("detect_boundaries" \in ran /\ pages_data # <<>>)
          => WellFormedBoundaries(detected, Len(pages_data))
    /\ ("get_document_sections" \in ran /\ total_pages >= 1 /\ sections_arg = <<>>)
          => sections = << <<0, total_pages - 1>> >>
    /\ ("get_document_sections" \in ran /\ total_pages >= 1
            /\ WellFormedBoundaries(sections_arg, total_pages))
          => /\ Len(sections) = Len(sections_arg)
             /\ \A i \in 1..Len(sections) :
                   /\ sections[i][1] = sections_arg[i]
                   /\ sections[i][2] = IF i < Len(sections_arg)
                                       THEN sections_arg[i + 1] - 1
                                       ELSE total_pages - 1
                   /\ sections[i][1] <= sections[i][2]
             /\ sections[1][1] = 0
             /\ sections[Len(sections)][2] = total_pages - 1
             /\ \A i \in 1..(Len(sections) - 1) : sections[i + 1][1] = sections[i][2] + 1

\* get_document_sections has cut a page range into three sections, one of
\* them longer than a page
C2_Witness ==
    /\ "get_document_sections" \in ran
    /\ WellFormedBoundaries(sections_arg, total_pages)
    /\ Len(sections) >= 3
    /\ \E i \in 1..Len(sections) : sections[i][1] < sections[i][2]

\* C3: for every input list, every total_pages >= 1 and every configured
\* min_document_length, the list validate_boundaries returns (and so the list
\* detect_boundaries returns) is strictly increasing and every member lies in
\* [0, total_pages).
C3_SortedDedupedInRange ==
    /\ ("validate_boundaries" \in ran /\ total_pages >= 1)
          => /\ StrictlyIncreasing(validated)
             /\ \A i \in 1..Len(validated) : validated[i] \in 0..(total_pages - 1)
    /\ ("detect_boundaries" \in ran /\ pages_data # <<>>)
          => /\ StrictlyIncreasing(detected)
             /\ \A i \in 1..Len(detected) : detected[i] \in 0..(Len(pages_data) - 1)

\* the candidates of a validate_boundaries call, the ones it accepted, and
\* the boundary accepted last before candidate c is examined
Candidates == IF in_boundaries = <<>> THEN {} ELSE Range(Tail(in_boundaries))

Accepted == Range(Tail(validated))

LastAccepted(c) ==
    LET before == {a \in Accepted : a < c}
    IN  IF before = {} THEN 0 ELSE CHOOSE a \in before : \A b \in before : b <= a

AdjacentApart(s, d) == \A i \in 1..(Len(s) - 1) : s[i + 1] - s[i] >= d

\* index 0 is kept in front and the accepted candidates follow in increasing order
KeepsZeroThenAccepted ==
    /\ validated # <<>>
    /\ validated[1] = 0
    /\ Accepted \subseteq Candidates
    /\ Tail(validated) = SortedSeq(Accepted)

\* C4 as stated, on calls with total_pages >= 1: any two adjacent members of
\* a returned list differ by at least min_document_length; index 0 is kept,
\* and a candidate is dropped iff its distance from the most recently
\* accepted boundary is below min_document_length.
C4_DroppedIffTooClose ==
    /\ "detect_boundaries" \in ran
          => AdjacentApart(detected, detector_config.min_document_length)
    /\ ("validate_boundaries" \in ran /\ total_pages >= 1)
          => /\ AdjacentApart(validated, detector_config.min_document_length)
             /\ KeepsZeroThenAccepted
             /\ \A c \in Candidates :
                   c \notin Accepted
                      <=> c - LastAccepted(c) < detector_config.min_document_length

\* C4 as amended: a candidate is dropped iff it is not below total_pages or
\* its distance from the most recently accepted boundary is below
\* min_document_length; index 0 is kept and adjacent members of a returned
\* list differ by at least min_document_length.
C4_DroppedIffOutOfRangeOrTooClose ==
    /\ "detect_boundaries" \in ran
          => AdjacentApart(detected, detector_config.min_document_length)
    /\ "validate_boundaries" \in ran
          => /\ AdjacentApart(validated, detector_config.min_document_length)
             /\ KeepsZeroThenAccepted
             /\ \A c \in Candidates :
                   c \notin Accepted
                      <=> \/ c >= total_pages
                          \/ c - LastAccepted(c) < detector_config.min_document_length

\* validate_boundaries with minimum 2 has dropped candidate 1 and kept
\* candidate 2, which is 2 from the accepted 0 and 1 from the dropped 1
C4_Witness ==
    /\ "validate_boundaries" \in ran
    /\ detector_config.min_document_length = 2
    /\ in_boundaries = <<0, 1, 2>>
    /\ validated = <<0, 2>>

-----------------------------------------------------------------------------
(* Claims about ClassificationResult, checked under SpecResult *)

\* C5: constructing a ClassificationResult succeeds iff the confidence is in
\* [0, 1], the label is one of the twelve document types and the method is
\* rule_based, api or fallback; anything else fails with an error, and an
\* accepted value is stored as given, not clamped.
C5_ConstructionValidated ==
    constructed.raised # "none" =>
        LET acceptable ==
                /\ 0 <= ctor_args[2][1]
                /\ ctor_args[2][1] <= ctor_args[2][2]
                /\ ctor_args[1] \in
                      {"email", "letter", "payment_application", "evidence_of_payment",
                       "change_order", "change_order_response", "rfi", "rfi_response",
                       "inspection_report", "contract_document", "plans_specifications",
                       "other"}
                /\ ctor_args[3] \in {"rule_based", "api", "fallback"}
        IN  /\ constructed.raised = "ok" <=> acceptable
            /\ acceptable =>
                  /\ constructed.object.document_type = ctor_args[1]
                  /\ constructed.object.confidence = ctor_args[2]
                  /\ constructed.object.method_used = ctor_args[3]
            /\ ~acceptable => constructed.object = NoResult

\* a construction with a known label and method and the confidence 1.5
\* has been rejected, not clamped
C5_Witness ==
    /\ ctor_args = <<"email", <<3, 2>>, "rule_based">>
    /\ constructed.raised \notin {"none", "ok"}
    /\ constructed.object = NoResult

-----------------------------------------------------------------------------
(* Claims about the FeedbackLearningSystem, checked under SpecFeedback *)

Classifications(t) == IF t \in DOMAIN stats THEN stats[t].total_classifications ELSE 0

Corrections(t) == IF t \in DOMAIN stats THEN stats[t].total_corrections ELSE 0

\* C7: after any sequence of record_classification and record_correction
\* calls, get_confidence_adjustment(t) is 1.0 when t has fewer than 5
\* classifications and max(0.5, 1 - 0.5 * corrections(t) / classifications(t))
\* otherwise; it always lies in [0.5, 1.0], and 5 classifications with 3
\* corrections give 0.7.
C7_AdjustmentFormula ==
    \A t \in DocumentType :
        LET a == get_confidence_adjustment(stats, t)
            n == Classifications(t)
            c == Corrections(t)
        IN  /\ a[2] > 0
            /\ n < 5 => a = <<1, 1>>
            /\ (n >= 5 /\ c <= n) => a[1] * 2 * n = a[2] * (2 * n - c)
            /\ (n >= 5 /\ c > n) => a = <<1, 2>>
            /\ a[2] <= 2 * a[1]
            /\ a[1] <= a[2]
            /\ (n = 5 /\ c = 3) => a = <<7, 10>>

\* a label with at least 5 classifications has more corrections than
\* classifications
C7_Witness ==
    \E t \in DOMAIN stats :
        /\ stats[t].total_classifications >= 5
        /\ stats[t].total_corrections > stats[t].total_classifications

-----------------------------------------------------------------------------
(* Claims about the DocumentClassifier, checked under Spec *)

NonBlank(text) == \E i \in 1..Len(text) : text[i] # " "

\* C6: classify_document on empty or whitespace-only text returns other with
\* confidence 0.0 and method fallback and an error note in the diagnostics,
\* whatever the feedback store and the patterns are, and does not consult
\* the external classifier.
C6_BlankTextFallback ==
    (call.op = "classify_document" /\ ~NonBlank(call.text)) =>
        /\ result.document_type = "other"
        /\ result.confidence = <<0, 1>>
        /\ result.method_used = "fallback"
        /\ "error" \in DOMAIN result.extracted_info
        /\ ~call.api_called

\* a whitespace-only text has been classified by a classifier that has an
\* external service and a feedback store with recorded events
C6_Witness ==
    /\ call.op = "classify_document"
    /\ call.text = <<" ", " ">>
    /\ openai_client
    /\ feedback_system
    /\ corrections # <<>>
    /\ \E t \in DOMAIN stats : stats[t].total_classifications >= 5

\* the step is a classify_document call on a text that is not blank
ClassifiedStep == call'.op = "classify_document" /\ NonBlank(call'.text)

\* the patterns of the list, malformed ones apart, found in the first
\* max_input_chars tokens of the text
MatchCount(patterns, text) ==
    Cardinality({k \in 1..Len(patterns) :
        /\ patterns[k] # BadPattern
        /\ \E i \in 1..Min(Len(text), classifier_config.max_input_chars) :
              text[i] = patterns[k]})

\* 0 for no match, min(1.0, 0.6 + 0.2 * (k - 1)) for k matches, as a rational
RawConfidence(k) ==
    IF k = 0 THEN <<0, 1>> ELSE IF k = 1 THEN <<3, 5>> ELSE IF k = 2 THEN <<4, 5>>
    ELSE <<1, 1>>

\* the adjusted confidence of the i-th label, from the store before the call
AdjustedConfidence(i, text) ==
    LET raw == RawConfidence(MatchCount(classifier_config.rule_patterns[i][2], text))
        adj == IF feedback_system
               THEN get_confidence_adjustment(stats, classifier_config.rule_patterns[i][1])
               ELSE <<1, 1>>
    IN  <<raw[1] * adj[1], raw[2] * adj[2]>>

SameRational(a, b) == a[1] * b[2] = b[1] * a[2]

\* C8: the raw confidence of a label is 0 when none of its patterns match
\* and min(1.0, 0.6 + 0.2 * (k - 1)) when k >= 1 match; it is multiplied by
\* get_confidence_adjustment(label) (by nothing in a classifier without a
\* feedback store); the label with the strictly highest adjusted confidence
\* wins, the first in pattern order among equals, and other with confidence
\* 0 when nothing matches; two email patterns and nothing else, unadjusted,
\* give email at 0.8, returned as rule_based under the default threshold.
C8_RuleScoring ==
    [][ClassifiedStep =>
          LET labels == 1..Len(classifier_config.rule_patterns)
              rule == call'.rule_result
              text == call'.text
          IN  /\ rule.method_used = "rule_based"
              /\ (\A i \in labels : AdjustedConfidence(i, text)[1] = 0)
                    => rule.document_type = "other" /\ rule.confidence = <<0, 1>>
              /\ (\E i \in labels : AdjustedConfidence(i, text)[1] > 0)
                    => \E i \in labels :
                          /\ rule.document_type = classifier_config.rule_patterns[i][1]
                          /\ SameRational(rule.confidence, AdjustedConfidence(i, text))
                          /\ \A j \in labels :
                                RatLeq(AdjustedConfidence(j, text), AdjustedConfidence(i, text))
                          /\ \A j \in 1..(i - 1) :
                                RatLess(AdjustedConfidence(j, text), AdjustedConfidence(i, text))
              /\ (text = <<"FROM", "SUBJECT">>
                     /\ (feedback_system => get_confidence_adjustment(stats, "email") = <<1, 1>>)
                     /\ classifier_config.confidence_threshold = <<7, 10>>)
                    => /\ result'.document_type = "email"
                       /\ result'.confidence = <<4, 5>>
                       /\ result'.method_used = "rule_based"
       ]_vars

\* a text with one email pattern and one change_order pattern, both at
\* 0.6, has been scored by a classifier with a feedback store: email, first
\* in pattern order, is kept
C8_Witness ==
    /\ call.op = "classify_document"
    /\ call.text = <<"CHANGE", "FROM">>
    /\ feedback_system
    /\ call.rule_result.document_type = "email"
    /\ call.rule_result.confidence = <<3, 5>>

\* C9: whenever the winning adjusted rule confidence is at or above the
\* configured threshold, classify_document returns that rule result tagged
\* rule_based without invoking the external classifier, and the feedback
\* store of the classifier records exactly one classification event, for the
\* returned label, and nothing else.
C9_ConfidentRuleRecorded ==
    [][(ClassifiedStep
          /\ RatLeq(classifier_config.confidence_threshold, call'.rule_result.confidence))
        => /\ result' = call'.rule_result
           /\ result'.method_used = "rule_based"
           /\ ~call'.api_called
           /\ feedback_system =>
                 /\ DOMAIN stats' = DOMAIN stats \cup {result'.document_type}
                 /\ \A t \in DOMAIN stats' :
                       /\ stats'[t].total_classifications =
                             Classifications(t) + (IF t = result'.document_type THEN 1 ELSE 0)
                       /\ stats'[t].total_corrections = Corrections(t)
                       /\ t \in DOMAIN stats
                             => stats'[t].correction_targets = stats[t].correction_targets
                 /\ corrections' = corrections
                 /\ feedback_file'.stats = stats'
       ]_vars

\* a rule result whose confidence the feedback store lowered, still at or
\* above the threshold, has been returned without consulting the configured
\* external service, and recorded
C9_Witness ==
    /\ call.op = "classify_document"
    /\ openai_client
    /\ feedback_system
    /\ result.method_used = "rule_based"
    /\ RatLeq(classifier_config.confidence_threshold, result.confidence)
    /\ RatLess(result.confidence, <<1, 1>>)
    /\ Len(result.extracted_info.matched_patterns) >= 3
    /\ ~call.api_called
    /\ call.recorded = result.document_type
    /\ stats[result.document_type].total_classifications >= 6

\* what the external service's answer amounts to: a label of the closed set
\* at 0.8, or other at 0.2
ApiLabel(content) ==
    IF content = "email" THEN "email"
    ELSE IF content = " Change_Order\n" THEN "change_order" ELSE "other"

ApiRawConfidence(content) ==
    IF content \in {"email", " Change_Order\n"} THEN <<4, 5>> ELSE <<1, 5>>

\* C10: when the rule confidence is below the threshold and the external
\* classifier returns a result, classify_document returns the API result iff
\* its raw confidence is strictly greater than the rule confidence and the
\* rule result otherwise; either way the returned confidence is
\* 0.3 * rule_confidence + 0.7 * api_confidence, and label and method are
\* those of the result chosen.
C10_ApiCombination ==
    /\ (call.op = "classify_document" /\ NonBlank(call.text) /\ openai_client)
          => (call.api_called
                 <=> RatLess(call.rule_result.confidence, classifier_config.confidence_threshold))
    /\ (call.op = "classify_document" /\ call.api_called /\ call.api_response # "raise")
          => LET r == call.rule_result.confidence
                 a == ApiRawConfidence(call.api_response)
             IN  /\ RatLess(r, classifier_config.confidence_threshold)
                 /\ SameRational(result.confidence,
                                 <<3 * r[1] * a[2] + 7 * a[1] * r[2], 10 * r[2] * a[2]>>)
                 /\ IF RatLess(r, a)
                    THEN /\ result.document_type = ApiLabel(call.api_response)
                         /\ result.method_used = "api"
                    ELSE /\ result.document_type = call.rule_result.document_type
                         /\ result.method_used = "rule_based"

\* the external service answered with a confidence equal to the rule
\* confidence, 0.8 under the threshold 0.9: the rule result has been returned
C10_Witness ==
    /\ call.op = "classify_document"
    /\ call.api_called
    /\ call.api_response = " Change_Order\n"
    /\ call.rule_result.confidence = <<4, 5>>
    /\ call.rule_result.document_type = "email"
    /\ result.document_type = "email"
    /\ result.method_used = "rule_based"
    /\ result.confidence = <<4, 5>>

\* the call found no usable external result: no client, or the call raised
NoExternalResult == ~openai_client \/ (call.api_called /\ call.api_response = "raise")

\* C11: when no external result is usable and the rule confidence is below
\* the threshold, classify_document returns the rule result tagged rule_based
\* iff its adjusted confidence is strictly greater than 0.3, and other with
\* confidence 0.1 and method fallback otherwise; a single matched pattern
\* adjusted by 0.5 (0.6 * 0.5 = 0.3) is not above 0.3 and gives the fallback.
C11_LowConfidenceOrFallback ==
    (/\ call.op = "classify_document"
     /\ NonBlank(call.text)
     /\ NoExternalResult
     /\ RatLess(call.rule_result.confidence, classifier_config.confidence_threshold))
    =>  LET r == call.rule_result.confidence
        IN  /\ 10 * r[1] > 3 * r[2]
                  => /\ result = call.rule_result
                     /\ result.method_used = "rule_based"
            /\ 10 * r[1] <= 3 * r[2]
                  => /\ result.document_type = "other"
                     /\ result.confidence = <<1, 10>>
                     /\ result.method_used = "fallback"
                     /\ "reason" \in DOMAIN result.extracted_info
            /\ (call.rule_result.extracted_info # EmptyDict
                    /\ call.rule_result.extracted_info.pattern_count = 1
                    /\ feedback_system
                    /\ get_confidence_adjustment(stats, call.rule_result.document_type) = <<1, 2>>)
                  => r = <<3, 10>> /\ result.method_used = "fallback"

\* one matched email pattern, adjusted by 0.5 to exactly 0.3, has been turned
\* into the fallback result by a classifier whose external call raised
C11_Witness ==
    /\ call.op = "classify_document"
    /\ call.text = <<"FROM">>
    /\ call.api_called
    /\ call.api_response = "raise"
    /\ call.rule_result.document_type = "email"
    /\ call.rule_result.confidence = <<3, 10>>
    /\ result.document_type = "other"
    /\ result.method_used = "fallback"

\* what the same classifier without an external service returns for the text
\* of the last call
WithoutExternal ==
    classify_document(classifier_config, FALSE, feedback_system, stats, call.text, "none").result

\* C12: if the external classification call raises, classify_document does
\* not propagate the failure: it returns exactly the result it would return
\* with no external classifier configured, the low-confidence rule result or
\* other/0.1/fallback.
C12_ApiFailureNotPropagated ==
    (call.op = "classify_document" /\ call.api_called /\ call.api_response = "raise")
    =>  /\ result.method_used \in {"rule_based", "fallback"}
        /\ result = WithoutExternal
        /\ result = call.rule_result
              \/ (result.document_type = "other" /\ result.confidence = <<1, 10>>)
        /\ call.recorded = ""

\* the external call raised on a text with one email pattern: the rule
\* result at 0.6 has been returned
C12_Witness ==
    /\ call.op = "classify_document"
    /\ openai_client
    /\ call.api_called
    /\ call.api_response = "raise"
    /\ call.text = <<"FROM">>
    /\ result.document_type = "email"
    /\ result.confidence = <<3, 5>>
    /\ result.method_used = "rule_based"

\* the external service answered with a label outside the closed set
InvalidLabelAnswered ==
    /\ call.op = "classify_document"
    /\ call.api_called
    /\ call.api_response = "invoice"

\* C13 as stated: if the external classifier returns a label outside the
\* closed label set, the returned label, confidence and method equal what
\* would be returned with no external classifier configured.
C13_InvalidLabelFallsThrough ==
    InvalidLabelAnswered
    =>  /\ result.document_type = WithoutExternal.document_type
        /\ result.confidence = WithoutExternal.confidence
        /\ result.method_used = WithoutExternal.method_used

\* C13 as amended: a label outside the closed set is taken as the API
\* result other with confidence 0.2 and combined like any other answer: the
\* returned confidence is 0.3 * rule_confidence + 0.14; the result is other
\* tagged api, with the invalid answer in the diagnostics, when the rule
\* confidence is below 0.2, and the rule label tagged rule_based otherwise.
C13_InvalidLabelIsLowConfidenceApi ==
    InvalidLabelAnswered
    =>  LET r == call.rule_result.confidence
        IN  /\ 50 * r[2] * result.confidence[1] = (15 * r[1] + 7 * r[2]) * result.confidence[2]
            /\ 5 * r[1] < r[2]
                  => /\ result.document_type = "other"
                     /\ result.method_used = "api"
                     /\ "error" \in DOMAIN result.extracted_info
                     /\ result.extracted_info.raw_response = "invoice"
            /\ 5 * r[1] >= r[2]
                  => /\ result.document_type = call.rule_result.document_type
                     /\ result.method_used = "rule_based"
                     /\ result.extracted_info = call.rule_result.extracted_info

\* the service answered invoice for a text no pattern matches: other tagged
\* api with confidence 0.14 has been returned
C13_Witness ==
    /\ InvalidLabelAnswered
    /\ call.text = <<"x">>
    /\ result.document_type = "other"
    /\ result.method_used = "api"
    /\ result.confidence = <<7, 50>>

\* the adjustment factor of a label, from its two counts alone
CountAdjustment(t) ==
    LET n == Classifications(t)
        c == Corrections(t)
    IN  IF ~feedback_system \/ n < 5 THEN <<1, 1>>
        ELSE IF c >= n THEN <<1, 2>> ELSE <<2 * n - c, 2 * n>>

\* the adjusted confidence of the i-th label, from the counts before the call
AdjustedByCounts(i, text) ==
    LET raw == RawConfidence(MatchCount(classifier_config.rule_patterns[i][2], text))
        adj == CountAdjustment(classifier_config.rule_patterns[i][1])
    IN  <<raw[1] * adj[1], raw[2] * adj[2]>>

\* the position of the winning label, 0 when no pattern matches
Winner(text) ==
    LET labels == 1..Len(classifier_config.rule_patterns)
    IN  IF \A i \in labels : AdjustedByCounts(i, text)[1] = 0 THEN 0
        ELSE CHOOSE i \in labels :
                /\ \A j \in labels : RatLeq(AdjustedByCounts(j, text), AdjustedByCounts(i, text))
                /\ \A j \in 1..(i - 1) :
                      RatLess(AdjustedByCounts(j, text), AdjustedByCounts(i, text))

\* label, confidence and method of the result, as a function of the
\* winning label and its confidence r, the threshold and the answer of the
\* external service ("none" when it is not consulted, "raise" when its
\* call fails)
Expected(label, r, answer) ==
    IF RatLeq(classifier_config.confidence_threshold, r)
    THEN <<label, r, "rule_based">>
    ELSE IF answer \notin {"none", "raise"}
    THEN LET a == ApiRawConfidence(answer)
             combined == <<3 * r[1] * a[2] + 7 * a[1] * r[2], 10 * r[2] * a[2]>>
         IN  IF RatLess(r, a) THEN <<ApiLabel(answer), combined, "api">>
             ELSE <<label, combined, "rule_based">>
    ELSE IF 10 * r[1] > 3 * r[2] THEN <<label, r, "rule_based">>
    ELSE <<"other", <<1, 10>>, "fallback">>

\* the result agrees with x in label, confidence and method
Agrees(res, x) ==
    /\ res.document_type = x[1]
    /\ SameRational(res.confidence, x[2])
    /\ res.method_used = x[3]

\* two calls in a row on the same text, the first of which left the store
\* as it found it
RepeatedCall ==
    /\ call.op = "classify_document"
    /\ call.recorded = ""
    /\ call'.op = "classify_document"
    /\ call'.text = call.text

\* C15 as stated: two calls with identical text, each made when the
\* Feedback Store holds the same per-label classification and correction
\* counts, return identical label, confidence, method and diagnostics.
C15_DeterministicInTextAndStore ==
    [][RepeatedCall => result' = result]_vars

\* C15 as amended: the result is a function of the text, the patterns and
\* threshold, the per-label counts of the store and, when the external
\* service is consulted, its answer; two calls with identical text and
\* identical answer, made at the same counts, return identical results.
C15_DeterministicGivenAnswer ==
    [][/\ (call'.op = "classify_document" /\ ~NonBlank(call'.text))
          => /\ Agrees(result', <<"other", <<0, 1>>, "fallback">>)
             /\ ~call'.api_called
       /\ (call'.op = "classify_document" /\ NonBlank(call'.text))
          => \E w \in {Winner(call'.text)} :
                \E r \in {IF w = 0 THEN <<0, 1>> ELSE AdjustedByCounts(w, call'.text)} :
                   /\ call'.api_called
                         = (openai_client /\ RatLess(r, classifier_config.confidence_threshold))
                   /\ Agrees(result',
                             Expected(IF w = 0 THEN "other"
                                      ELSE classifier_config.rule_patterns[w][1],
                                      r, call'.api_response))
       /\ (RepeatedCall /\ call'.api_response = call.api_response) => result' = result
     ]_vars

\* a text the external service was consulted on has been classified at a
\* store that adjusts the email confidence, and the answer has been used
C15_Witness ==
    /\ call.op = "classify_document"
    /\ feedback_system
    /\ call.api_called
    /\ call.api_response = "email"
    /\ "email" \in DOMAIN stats
    /\ stats["email"].total_classifications >= 5
    /\ stats["email"].total_corrections >= 1
    /\ call.text = <<"FROM", "SUBJECT">>
    /\ result.method_used = "api"

-----------------------------------------------------------------------------
(* Claims about classify_batch, checked under SpecBatch *)

\* result j of the batch is a rule result the classifier was confident of
ConfidentResult(j) ==
    /\ results'[j].method_used = "rule_based"
    /\ RatLeq(classifier_config.confidence_threshold, results'[j].confidence)

\* the store when document i of the batch is classified: the store before
\* the call and one classification for each confident result before i
RECURSIVE StoreBefore(_)
StoreBefore(i) ==
    IF i <= 1 THEN stats
    ELSE IF feedback_system /\ ConfidentResult(i - 1)
         THEN record_classification(StoreBefore(i - 1), results'[i - 1].document_type)
         ELSE StoreBefore(i - 1)

\* C14: classify_batch returns exactly one result per input document, in
\* input order, for every input list: when classifying document i fails,
\* result i is other with confidence 0.0, method fallback and the error in
\* its diagnostics, and every later document is still classified.
C14_BatchIsolatesFailures ==
    [][call'.op = "classify_batch" =>
          /\ Len(results') = Len(documents')
          /\ \A i \in 1..Len(documents') :
                LET e == classify_document_raises(classifier_config, feedback_system,
                                                  StoreBefore(i), documents'[i])
                IN  /\ e # ""
                          => /\ results'[i].document_type = "other"
                             /\ results'[i].confidence = <<0, 1>>
                             /\ results'[i].method_used = "fallback"
                             /\ results'[i].extracted_info = [error |-> e]
                    /\ e = ""
                          => results'[i] =
                                classify_document(classifier_config, openai_client,
                                                  feedback_system, StoreBefore(i),
                                                  documents'[i], responses'[i]).result
          /\ stats' = StoreBefore(Len(documents') + 1)
       ]_vars

\* the second of three documents failed on a label outside the closed set
\* and the third has still been classified
C14_Witness ==
    /\ call.op = "classify_batch"
    /\ documents = << <<"FROM", "SUBJECT">>, <<"INVOICE">>, <<"FROM", "SUBJECT">> >>
    /\ Len(results) = 3
    /\ results[1].document_type = "email"
    /\ results[2].method_used = "fallback"
    /\ "error" \in DOMAIN results[2].extracted_info
    /\ results[3].document_type = "email"
    /\ results[3].method_used = "rule_based"

-----------------------------------------------------------------------------
(* Claims about the operations of the store, checked under SpecFeedback *)

Targets(t) == IF t \in DOMAIN stats THEN stats[t].correction_targets ELSE EmptyDict

TargetCount(t, c) == IF c \in DOMAIN Targets(t) THEN Targets(t)[c] ELSE 0

RECURSIVE SumOfTargets(_)
SumOfTargets(targets) ==
    IF DOMAIN targets = {} THEN 0
    ELSE LET c == CHOOSE x \in DOMAIN targets : TRUE
         IN  targets[c] + SumOfTargets([x \in DOMAIN targets \ {c} |-> targets[x]])

\* C17: record_correction(original, corrected, confidence, text) appends
\* one CorrectionEntry whose sample is the first 200 characters of text,
\* increases total_corrections[original] and
\* correction_targets[original][corrected] by one each, and changes no
\* classification count and no statistic of any other label; starting from
\* an empty store, total_corrections[t] equals the sum of
\* correction_targets[t] for every label t after any sequence of operations.
C17_RecordCorrectionEffect ==
    /\ [](\A t \in DOMAIN stats :
              stats[t].total_corrections = SumOfTargets(stats[t].correction_targets))
    /\ [][call'.op = "record_correction" =>
             /\ Len(corrections') = Len(corrections) + 1
             /\ SubSeq(corrections', 1, Len(corrections)) = corrections
             /\ LET entry == corrections'[Len(corrections')]
                    original == entry.original_type
                    corrected == entry.corrected_type
                IN  /\ original = call'.recorded
                    /\ Len(entry.text_sample) = Min(Len(call'.text), 200)
                    /\ \A i \in 1..Len(entry.text_sample) :
                          entry.text_sample[i] = call'.text[i]
                    /\ DOMAIN stats' = DOMAIN stats \cup {original}
                    /\ \A t \in DOMAIN stats' :
                          /\ stats'[t].total_classifications = Classifications(t)
                          /\ stats'[t].total_corrections =
                                Corrections(t) + (IF t = original THEN 1 ELSE 0)
                          /\ t # original => stats'[t].correction_targets = Targets(t)
                    /\ DOMAIN stats'[original].correction_targets =
                          DOMAIN Targets(original) \cup {corrected}
                    /\ \A c \in DOMAIN stats'[original].correction_targets :
                          stats'[original].correction_targets[c] =
                             TargetCount(original, c) + (IF c = corrected THEN 1 ELSE 0)
         ]_vars

\* a correction with a text of 201 characters has been recorded for a pair
\* corrected before: the entry holds the first 200
C17_Witness ==
    /\ call.op = "record_correction"
    /\ Len(call.text) = 201
    /\ Len(corrections[Len(corrections)].text_sample) = 200
    /\ call.recorded = "change_order"
    /\ stats["change_order"].correction_targets["email"] >= 2
    /\ stats["change_order"].total_classifications >= 1
    /\ "email" \in DOMAIN stats

-----------------------------------------------------------------------------
(* Claims about the correction log, checked under SpecRetention *)

\* C18: the Feedback Store retains only the most recent 1000 correction
\* entries: after any number of record_correction calls the log the store
\* holds, the one it persists and the one it uses for
\* suggest_pattern_improvements, has at most 1000 entries, the latest ones
\* in arrival order.
C18_LogKeepsLatestThousand ==
    /\ Len(feedback_file.corrections) <= 1000
    /\ \A i \in 1..Len(feedback_file.corrections) :
          feedback_file.corrections[i] =
             corrections[Len(corrections) - Len(feedback_file.corrections) + i]
    /\ Len(corrections) <= 1000

-----------------------------------------------------------------------------
(* Claims about loading the feedback file, checked under SpecLoad *)

\* the file is JSON holding a correction or stats entry that cannot be parsed
HasMalformedEntry(file) ==
    \/ \E i \in 1..Len(file.corrections) : file.corrections[i] = Malformed
    \/ \E i \in 1..Len(file.keys) : file.stats[file.keys[i]] = Malformed

-----------------------------------------------------------------------------
(* Claims about pattern suggestions, checked under SpecSuggest *)

\* the words longer than 3 characters found in at least half of the samples
WordsOfHalfTheSamples(text_samples) ==
    {word \in Range(AllWords(text_samples)) :
        /\ WordLength(word) > MinWordLength
        /\ 2 * Cardinality({i \in 1..Len(text_samples) : word \in Range(Words(text_samples[i]))})
              >= Len(text_samples)}

\* the pattern matching a word as a whole word
WholeWord(word) == [whole_word |-> word]

\* the number of patterns proposed per group
TopPatterns == 3

\* C20: suggest_pattern_improvements groups the samples by (original,
\* corrected) pair and, for every group with at least min_corrections
\* samples, returns under the corrected label the whole-word patterns of the
\* (up to 3) upper-cased words longer than 3 characters that appear in at least
\* half of the group's samples; 5 corrections email -> change_order whose
\* samples all contain URGENT yield a whole-word URGENT pattern for
\* change_order.
C20_SuggestsCommonWords ==
    call.op = "suggest_pattern_improvements" =>
        /\ result.raised = "None"
        /\ \A key \in GroupKeys(corrections) :
              LET text_samples == GroupSamples(corrections, key)
                  words == WordsOfHalfTheSamples(text_samples)
              IN  (Len(text_samples) >= result.min_corrections /\ words # {}) =>
                     /\ key[2] \in DOMAIN result.suggestions
                     /\ Cardinality({word \in words :
                            WholeWord(word) \in Range(result.suggestions[key[2]])})
                          >= Min(TopPatterns, Cardinality(words))

-----------------------------------------------------------------------------
(* Claims about malformed patterns, checked under SpecPatterns *)

\* the expressions the re module does not accept
MalformedPatterns == {BadPattern, OversizedRepeat}

WellFormed(patterns) == SelectSeq(patterns, LAMBDA p : p \notin MalformedPatterns)

\* the detector configuration with the malformed patterns taken out
DetectorWithoutMalformed ==
    [detector_config EXCEPT
        !.patterns = [t \in DOMAIN detector_config.patterns |->
                         WellFormed(detector_config.patterns[t])]]

\* the classifier configuration with the malformed patterns taken out
ClassifierWithoutMalformed ==
    [classifier_config EXCEPT
        !.rule_patterns = [i \in 1..Len(classifier_config.rule_patterns) |->
                              <<classifier_config.rule_patterns[i][1],
                                WellFormed(classifier_config.rule_patterns[i][2])>>]]

\* C21: a malformed regular expression in the boundary pattern list or in the
\* classification pattern list never aborts detect_boundaries or
\* classify_document: the result is the one the call would give with that
\* pattern absent from the list.
C21_MalformedPatternSkipped ==
    /\ ran # {} =>
          /\ ran = {"detect_boundaries"}
          /\ detected = detect_boundaries(DetectorWithoutMalformed, pages_data)
    /\ call.op = "classify_document" =>
          result = classify_document(ClassifierWithoutMalformed, FALSE, FALSE, stats,
                                     call.text, "none").result

-----------------------------------------------------------------------------
(* Claims about the boundary signals, checked under SpecSignals *)

RatAbs(a) == <<Abs(a[1]), a[2]>>

\* the average of a list of numbers, or the value assumed for an empty one
Average(numbers, assumed) ==
    IF numbers = <<>> THEN Rat(assumed, 1) ELSE Rat(SeqSum(numbers), Len(numbers))

\* 3.0 when any well-formed pattern of any label matches page i, in tenths
PatternSignal(i) ==
    IF \E t \in DOMAIN detector_config.patterns :
          \E p \in Range(detector_config.patterns[t]) :
             p \notin MalformedPatterns /\ p \in pages_data[i + 1].text
    THEN 30 ELSE 0

\* the average font size of page i differs by more than 20% from page i - 1
FontSizeChange(i) ==
    LET prev == Average(pages_data[i].font_sizes, 12)
        curr == Average(pages_data[i + 1].font_sizes, 12)
    IN  RatLess(RatMul(Rat(1, 5), prev), RatAbs(RatSub(curr, prev)))

\* the average block position moves by more than 30% of the page height
VerticalShift(i) ==
    /\ pages_data[i].block_ys # <<>>
    /\ pages_data[i + 1].block_ys # <<>>
    /\ pages_data[i + 1].page_height > 0
    /\ RatLess(Rat(3 * pages_data[i + 1].page_height, 10),
               RatAbs(RatSub(Average(pages_data[i + 1].block_ys, 0),
                             Average(pages_data[i].block_ys, 0))))

LayoutSignal(i) ==
    (IF FontSizeChange(i) THEN 10 ELSE 0) + (IF VerticalShift(i) THEN 10 ELSE 0)

LargeFontSignal(i) ==
    IF pages_data[i + 1].has_large_text THEN detector_config.large_font_weight ELSE 0

\* the first three lines of page i
Header(i) == SubSeq(pages_data[i + 1].first_lines, 1, Min(3, Len(pages_data[i + 1].first_lines)))

HeaderSignal(i) ==
    IF /\ i >= 2
       /\ Header(i) # <<>>
       /\ \A j \in 0..(i - 1) : j >= i - 3 => ~_headers_similar(Header(i), Header(j))
    THEN detector_config.header_change_weight ELSE 0

SignalSum(i) == PatternSignal(i) + LayoutSignal(i) + LargeFontSignal(i) + HeaderSignal(i)

\* C22: a page i >= 1 is a raw boundary iff the sum of the pattern, layout,
\* large-font and header signals reaches confidence_threshold, so the list
\* detect_boundaries returns is the validated list of those pages, and under
\* the default thresholds every page matching a boundary pattern is in it.
C22_BoundaryIffSignalSum ==
    ("detect_boundaries" \in ran /\ pages_data # <<>>) =>
        /\ detected = validate_boundaries(detector_config,
                          <<0>> \o SortedSeq({i \in 1..(Len(pages_data) - 1) :
                              SignalSum(i) >= detector_config.confidence_threshold}),
                          Len(pages_data))
        /\ (/\ detector_config.confidence_threshold = DefaultConfidenceThreshold
            /\ detector_config.min_document_length = 1)
           => \A i \in 1..(Len(pages_data) - 1) :
                 PatternSignal(i) > 0 => i \in Range(detected)

\* the header signal alone makes page 4 a boundary: page 0 has the same
\* header but lies outside the three pages compared
C22_Witness ==
    /\ "detect_boundaries" \in ran
    /\ pages_data = <<NewHeaderPage, PlainPage, PlainPage, PlainPage, NewHeaderPage>>
    /\ detector_config.min_document_length = 1
    /\ detector_config.confidence_threshold = 15
    /\ 4 \in Range(detected)

-----------------------------------------------------------------------------
(* Claims about what classify_document records, checked under Spec *)

\* C23: the Feedback Store is written after every classification: every
\* classify_document call on non-empty text records one classification event
\* for the label it returns, whichever path produced the result.
C23_EveryClassificationRecorded ==
    [][(ClassifiedStep /\ feedback_system)
        => /\ result'.document_type \in DOMAIN stats'
           /\ stats'[result'.document_type].total_classifications =
                 Classifications(result'.document_type) + 1
           /\ feedback_file'.stats = stats'
       ]_vars

-----------------------------------------------------------------------------
(* Claims about the items of a batch, checked under SpecBatch *)

\* what classify_document gives for document i alone on the store st
AloneOn(st, i) ==
    IF classify_document_raises(classifier_config, feedback_system, st, documents'[i]) # ""
    THEN BatchErrorResult(classify_document_raises(classifier_config, feedback_system,
                                                   st, documents'[i]))
    ELSE classify_document(classifier_config, openai_client, feedback_system, st,
                           documents'[i], responses'[i]).result

\* the labels of the pattern lists
RuleLabels == {classifier_config.rule_patterns[k][1] :
                  k \in 1..Len(classifier_config.rule_patterns)}

\* the classifications recorded before document i leave every adjustment
\* factor as it was at the start of the batch
AdjustmentsAsAtStart(i) ==
    \A t \in RuleLabels :
        get_confidence_adjustment(StoreBefore(i), t) = get_confidence_adjustment(stats, t)

\* C24 as claimed: the result for every item of a batch is the result
\* classify_document returns for that item alone from the Feedback Store
\* state at the start of the batch.
C24_ItemsFromStoreAtStart ==
    [][call'.op = "classify_batch" =>
          \A i \in 1..Len(documents') : results'[i] = AloneOn(stats, i)
       ]_vars

\* C24 amended: the result for every item is the result classify_document
\* returns for that item alone from the store as the earlier items of the
\* batch left it; it is the result from the store at the start of the batch
\* whenever the classifications recorded by the earlier items have changed no
\* adjustment factor, and then equal texts with equal external answers get
\* equal results.
C24_ItemsFromStoreAsLeft ==
    [][call'.op = "classify_batch" =>
          /\ \A i \in 1..Len(documents') :
                /\ results'[i] = AloneOn(StoreBefore(i), i)
                /\ AdjustmentsAsAtStart(i) => results'[i] = AloneOn(stats, i)
          /\ \A i, j \in 1..Len(documents') :
                (/\ documents'[i] = documents'[j]
                 /\ responses'[i] = responses'[j]
                 /\ AdjustmentsAsAtStart(i)
                 /\ AdjustmentsAsAtStart(j)) => results'[i] = results'[j]
       ]_vars

\* the same text twice in one batch on a fresh store: both confident, both
\* recorded, the same result
C24_Witness ==
    /\ call.op = "classify_batch"
    /\ feedback_system
    /\ documents = << <<"FROM", "SUBJECT">>, <<"FROM", "SUBJECT">> >>
    /\ results[1] = results[2]
    /\ results[1].method_used = "rule_based"
    /\ stats["email"].total_classifications = 2

-----------------------------------------------------------------------------
(* Claims about crashes during a save, checked under SpecCrash *)

\* the counts of the label and the length of the log in a store
CountsOf(st, log) ==
    <<IF ThreadLabel \in DOMAIN st THEN st[ThreadLabel].total_classifications ELSE 0,
      IF ThreadLabel \in DOMAIN st THEN st[ThreadLabel].total_corrections ELSE 0,
      Len(log)>>

\* what the call a thread is saving has added to the counts
EventOf(t) ==
    IF threads[t].op = "record_classification" THEN <<1, 0, 0>> ELSE <<0, 1, 1>>

\* C25: a save is all-or-nothing: if the save of a record_classification or
\* record_correction call is interrupted by a crash at any point, the file
\* left on disk loads as the complete previously persisted state or as the
\* complete new state, never as an empty state that discards the counts
\* persisted before.
C25_SaveAllOrNothing ==
    [][\A t \in DOMAIN threads :
          (threads[t].at \in {"save", "open", "dump"} /\ threads'[t].at = "restarted")
          => LET new == CountsOf(stats, corrections)
                 old == [k \in 1..3 |-> new[k] - EventOf(t)[k]]
             IN  CountsOf(stats', corrections') \in {old, new}
       ]_vars

-----------------------------------------------------------------------------
(* Claims about calls sharing one store, checked under SpecThreads *)

AllReturned == \A t \in DOMAIN threads : threads[t].at = "idle"

\* no call has run while another thread was inside a call
Serialized == \A t \in DOMAIN threads : ~threads[t].overlapped

\* the events recorded by the calls that have returned, as CountsOf counts them
RecordedEvents ==
    LET classified == SumOver([t \in DOMAIN threads |-> threads[t].classified], DOMAIN threads)
        corrected == SumOver([t \in DOMAIN threads |-> threads[t].corrected], DOMAIN threads)
    IN  <<classified, corrected, corrected>>

\* the counts a process started on the file would hold
PersistedCounts ==
    CountsOf(_load_feedback(feedback_file).stats, _load_feedback(feedback_file).corrections)

\* C26: the store has no serialization of its own. When record_* calls on one
\* store have all returned, the persisted counts never exceed the number of
\* recorded events, and when no two calls overlapped every event is counted:
\* the counters in memory and in the file equal the numbers of events and
\* the file, once a call has written it, holds the state in memory. (That overlapping calls can lose an
\* increment or leave a stale file is the witness.)
C26_SerializedCallsCountEveryEvent ==
    AllReturned =>
        /\ PersistedCounts[1] <= RecordedEvents[1]
        /\ PersistedCounts[2] <= RecordedEvents[2]
        /\ Serialized =>
              /\ CountsOf(stats, corrections) = RecordedEvents
              /\ PersistedCounts = RecordedEvents
              /\ RecordedEvents # <<0, 0, 0>> => feedback_file = _save_feedback(stats, corrections)

\* two classifications recorded by overlapping calls, one persisted
C26_Witness ==
    /\ AllReturned
    /\ ~Serialized
    /\ RecordedEvents[1] = 2
    /\ PersistedCounts[1] = 1

-----------------------------------------------------------------------------
(* Claims about the rates of a label, checked under SpecFeedback *)

UnitInterval(r) == RatLeq(Zero, r) /\ RatLeq(r, One)

\* C27: for every label, after any sequence of record_classification and
\* record_correction calls, correction_rate and accuracy_rate lie in
\* [0.0, 1.0], correction_rate is 0 when the label has no classifications,
\* accuracy_rate is 1 - correction_rate, and the rates of the accuracy
\* report lie in [0.0, 1.0] as well.
C27_RatesInUnitInterval ==
    /\ \A label \in DOMAIN stats :
          /\ UnitInterval(correction_rate(stats[label]))
          /\ UnitInterval(accuracy_rate(stats[label]))
          /\ stats[label].total_classifications = 0 => correction_rate(stats[label]) = Zero
          /\ RatAdd(accuracy_rate(stats[label]), correction_rate(stats[label])) = One
    /\ \A label \in DOMAIN get_accuracy_report(stats) :
          /\ UnitInterval(get_accuracy_report(stats)[label].correction_rate)
          /\ UnitInterval(get_accuracy_report(stats)[label].accuracy_rate)

-----------------------------------------------------------------------------
(* Claims about every returned result, checked under SpecReturns *)

\* what ClassificationResult.__post_init__ accepts
ValidResult(r) ==
    /\ UnitInterval(r.confidence)
    /\ r.document_type \in DocumentType
    /\ r.method_used \in ClassificationMethod

\* C28: every ClassificationResult that classify_document or classify_batch
\* returns has a confidence in [0, 1], a label of the closed label set and a
\* method among rule_based, api and fallback, on every return path,
\* including the one where the confidence is overwritten with the combined
\* value after construction.
C28_ReturnedResultsValid ==
    /\ call.op = "classify_document" => ValidResult(result)
    /\ \A i \in 1..Len(results) : ValidResult(results[i])

\* the external result returned with the combined value in place of its own
\* confidence, the rule result having matched something
C28_Witness ==
    /\ call.op = "classify_document"
    /\ call.api_called
    /\ result.method_used = "api"
    /\ RatLess(Zero, call.rule_result.confidence)
    /\ result.confidence = RatAdd(RatMul(call.rule_result.confidence, RuleWeight),
                                  RatMul(Rat(4, 5), ApiWeight))
    /\ result.confidence # Rat(4, 5)

-----------------------------------------------------------------------------
(* Claims about the adjustment factor across a correction, checked under
   SpecFeedback *)

\* C29: record_correction(original, corrected, ...) never increases
\* get_confidence_adjustment(original) and leaves the adjustment factor of
\* every other label, corrected included, unchanged.
C29_CorrectionNeverRaisesAdjustment ==
    [][call'.op = "record_correction"
       => /\ RatLeq(get_confidence_adjustment(stats', call'.recorded),
                    get_confidence_adjustment(stats, call'.recorded))
          /\ \A label \in DocumentType \ {call'.recorded} :
                get_confidence_adjustment(stats', label)
                   = get_confidence_adjustment(stats, label)
      ]_vars

\* the first correction of a label with five classifications has just been
\* recorded: its factor has gone from 1.0 to 0.9
C29_Witness ==
    /\ call.op = "record_correction"
    /\ call.recorded \in DOMAIN stats
    /\ stats[call.recorded].total_classifications >= MinClassifications
    /\ stats[call.recorded].total_corrections = 1
    /\ get_confidence_adjustment(stats, call.recorded) = Rat(9, 10)

\* a correction towards a label whose own factor is below 1.0 has just been
\* recorded
C29_WitnessCorrected ==
    /\ call.op = "record_correction"
    /\ corrections # <<>>
    /\ corrections[Len(corrections)].original_type = call.recorded
    /\ RatLess(get_confidence_adjustment(stats, corrections[Len(corrections)].corrected_type),
               One)

-----------------------------------------------------------------------------
(* Claims about a label whose factor is below the threshold, checked under
   Spec *)

BelowThreshold(st, t) ==
    RatLess(get_confidence_adjustment(st, t), classifier_config.confidence_threshold)

\* C30: once get_confidence_adjustment(t) is below the classification
\* confidence threshold, no later classify_document call records a
\* classification for t, so total_classifications of t stays fixed and the
\* adjustment of t never increases again under any further classify_document
\* and record_correction calls. (Each step from a state where the factor is
\* below the threshold keeps the count and does not raise the factor, so the
\* factor is below the threshold after the step as well.)
C30_BelowThresholdNeverRecovers ==
    [][\A t \in DocumentType :
          BelowThreshold(stats, t)
          => /\ call'.op = "classify_document" => call'.recorded # t
             /\ StatsOf(stats', t).total_classifications = StatsOf(stats, t).total_classifications
             /\ RatLeq(get_confidence_adjustment(stats', t), get_confidence_adjustment(stats, t))
             /\ BelowThreshold(stats', t)
      ]_vars

\* a text matching every email pattern has just been classified with the
\* factor of email below the threshold: the rule confidence is 1.0 times the
\* factor and nothing was recorded
C30_Witness ==
    /\ call.op = "classify_document"
    /\ feedback_system
    /\ BelowThreshold(stats, "email")
    /\ call.rule_result.document_type = "email"
    /\ call.rule_result.confidence = get_confidence_adjustment(stats, "email")
    /\ call.recorded = ""

=============================================================================
